---------------------------- MODULE Spec2Model ----------------------------
(***************************************************************************)
(* A model of the hierarchical document splitter                           *)
(* (src/src/hierarchical_splitter.py) and of the hierarchical loader's     *)
(* folder metadata (src/src/hierarchical_loader.py) of                     *)
(* rag-knowledge-system.                                                   *)
(*                                                                         *)
(* A text is a sequence of tokens: a token is either a maximal run of      *)
(* whitespace (" " is one space, "\n" any other run) or a word.  A Python  *)
(* dict is a function whose domain is its set of keys.  Python's None is   *)
(* the token None; a content of None is the one-token text NoneContent.    *)
(* A folder name or a path is a text too: "/" is a token of its own, so    *)
(* that joining names to a path and splitting a path are computed.         *)
(***************************************************************************)
EXTENDS Integers, Sequences, FiniteSets, TLC

\* ------------------------------------------------------------------ bounds
MaxSize == 3
MaxOverlap == 2
MaxNegOverlap == 1
MaxWords == 4
MaxDocs == 2
\* folder records handed to _build_folder_hierarchy_from_drive
MaxFolders == 2
\* the parent-chain walk is followed up to this many path_parts
MaxPathParts == 4
\* directories between the traversal root and a local file
MaxDepth == 3
\* items iterdir() lists in the directory load_from_directory is called on
MaxEntries == 2
\* files below that directory
MaxFiles == 1
\* calls of process_query on one ChatInterface
MaxQueries == 3
\* operations on one IndexingPipeline
MaxOperations == 4

\* ------------------------------------------------- the constructor's defaults
DefaultParentChunkSize == 2000
DefaultChildChunkSize == 500
DefaultGrandchildChunkSize == 150
DefaultChunkOverlap == 50

VARIABLES
    splitter,      \* the HierarchicalDocumentSplitter's attributes
    pc,            \* "new", "ValueError", "ready", "returned", "repeated",
                   \* "AttributeError"
    documents,     \* the `documents` argument of the latest split_documents call
    levels,        \* its `levels` argument (NoneLevels or a set of level names)
    all_chunks,    \* the list the latest split_documents call returned
    saved_chunks   \* the list the call before it returned, kept by the caller

VARIABLES
    lpc,             \* the loader's position: "idle", "loop", "walk", "built",
                     \* "looked_up", "extracted"
    folders,         \* the `folders` argument of _build_folder_hierarchy_from_drive
    folder_map,      \* its folder_map; then the `folder_map` argument of
                     \* _get_google_drive_hierarchy
    todo,            \* the keys of folder_map its second loop has yet to visit
    folder_id,       \* the key that loop is at
    path_parts,      \* the path_parts of the walk
    current_parents, \* the current_parents of the walk
    parent_ids,      \* the `parent_ids` argument of _get_google_drive_hierarchy
    file_path,       \* the `file_path` argument of _extract_hierarchical_metadata
    metadata         \* the dict the latest of the two returned

VARIABLES
    dpc,           \* load_from_directory: "idle", "returned", "ValueError",
                   \* "PermissionError", "OSError"
    load_call,     \* the arguments of the latest load_from_directory call:
                   \* what is at root_path, allowed_extensions,
                   \* max_file_size_mb, additional_metadata
    load_result    \* the list of documents it returned

VARIABLES
    github,        \* the GitHubRepositoryLoader's attributes
    gpc,           \* process_repository: "new", "idle", "found_local",
                   \* "to_clone", "to_load", "returned", "ValueError",
                   \* "PermissionError", "OSError"
    process_call,  \* the arguments of the process_repository call
    local_repo,    \* what is at repo_path
    operations,    \* what the call has done so far to the outside: "update",
                   \* "rmtree", "clone", "load", in this order
    load_repository_call,  \* the arguments load_repository handed to
                           \* load_from_directory
    repository_result      \* the (documents, status) pair the call returned

VARIABLES
    wpc,           \* _create_chunks: "idle", "loop" (at the test of the while
                   \* loop), "done"
    window         \* its arguments and local variables: total_words,
                   \* chunk_size, overlap, step, start, and the windows
                   \* (start, end) of the chunks appended so far

VARIABLES
    history,       \* the ChatInterface's history, a list of query/answer entries
    chat_log       \* the process_query calls so far: the input, whether the
                   \* query pipeline was called and what came of it, and
                   \* what process_query returned

VARIABLES
    document_store,  \* the IndexingPipeline's document_store: None or a store
    pipeline,        \* its pipeline: NoPipeline or a pipeline writing to a store
    indexing_log     \* the operations on it so far: the operation, the
                     \* attributes before and after it, how it ended and
                     \* whether it ran the pipeline

splitter_vars == <<splitter, pc, documents, levels, all_chunks, saved_chunks>>
loader_vars ==
    <<lpc, folders, folder_map, todo, folder_id, path_parts, current_parents,
      parent_ids, file_path, metadata>>
directory_vars == <<dpc, load_call, load_result>>
github_vars ==
    <<github, gpc, process_call, local_repo, operations, load_repository_call,
      repository_result>>
window_vars == <<wpc, window>>
chat_vars == <<history, chat_log>>
indexing_vars == <<document_store, pipeline, indexing_log>>
vars ==
    <<splitter_vars, loader_vars, directory_vars, github_vars, window_vars,
      chat_vars, indexing_vars>>

\* What the operations of one component leave alone.
not_splitter_vars ==
    <<loader_vars, directory_vars, github_vars, window_vars,
      chat_vars, indexing_vars>>
not_loader_vars ==
    <<splitter_vars, directory_vars, github_vars, window_vars,
      chat_vars, indexing_vars>>
not_directory_vars ==
    <<splitter_vars, loader_vars, github_vars, window_vars,
      chat_vars, indexing_vars>>
not_github_vars ==
    <<splitter_vars, loader_vars, directory_vars, window_vars,
      chat_vars, indexing_vars>>
not_window_vars ==
    <<splitter_vars, loader_vars, directory_vars, github_vars,
      chat_vars, indexing_vars>>
not_chat_vars ==
    <<splitter_vars, loader_vars, directory_vars, github_vars,
      window_vars, indexing_vars>>
not_indexing_vars ==
    <<splitter_vars, loader_vars, directory_vars, github_vars,
      window_vars, chat_vars>>

\* ------------------------------------------------------------ Python values
None == "None"
NoneContent == <<None>>
NoneLevels == {None}
NoSplitter == [constructed |-> FALSE]
LevelNames == {"parent", "child", "grandchild"}

Max(a, b) == IF a >= b THEN a ELSE b
Min(a, b) == IF a <= b THEN a ELSE b

IsSpace(t) == t \in {" ", "\n"}

\* str.split(): the maximal runs of non-whitespace, in order.
str_split(content) == SelectSeq(content, LAMBDA t : ~IsSpace(t))

\* " ".join(words)
str_join(words) ==
    [i \in 1..(IF Len(words) = 0 THEN 0 ELSE 2 * Len(words) - 1) |->
        IF i % 2 = 1 THEN words[(i + 1) \div 2] ELSE " "]

\* A slice that runs to the end of the list.
py_slice_to_the_end(words, start, end) == SubSeq(words, start + 1, Len(words))

\* words[start:end] for 0 <= start, 0 <= end <= len(words)
py_slice(words, start, end) == SubSeq(words, start + 1, end)

\* An update that forgets the dict it started from.
dict_update_from_empty(d, u) == u

\* d.copy() followed by .update(u)
dict_update(d, u) ==
    [k \in DOMAIN d \cup DOMAIN u |-> IF k \in DOMAIN u THEN u[k] ELSE d[k]]

\* hashlib.md5(content.encode()).hexdigest()[:8]: a digest, a fixed function
\* of the text.
md5_hex8(content) == ToString(content)

\* ------------------------------------------------------------- the splitter

\* A check that accepts equal sizes.
sizes_ordered_nonstrict(parent_chunk_size, child_chunk_size, grandchild_chunk_size) ==
    parent_chunk_size >= child_chunk_size /\ child_chunk_size >= grandchild_chunk_size

\* __init__'s check of the sizes (line 47).
sizes_ordered(parent_chunk_size, child_chunk_size, grandchild_chunk_size) ==
    parent_chunk_size > child_chunk_size /\ child_chunk_size > grandchild_chunk_size

\* A doc_id that leaves the batch index out.
_generate_doc_id_without_index(doc, doc_idx) ==
    IF "file_name" \in DOMAIN doc.meta
    THEN doc.meta["file_name"]
    ELSE "doc_" \o md5_hex8(doc.content)

_generate_doc_id(doc, doc_idx) ==
    LET base == IF "file_name" \in DOMAIN doc.meta
                THEN doc.meta["file_name"]
                ELSE "doc_" \o md5_hex8(doc.content)
    IN  base \o "_" \o ToString(doc_idx)

_generate_chunk_id(doc_id, level, chunk_index) ==
    doc_id \o "_" \o level \o "_" \o ToString(chunk_index)

virtual_parent_id(doc_id) == doc_id \o "_virtual_parent"

\* The chunk metadata _create_chunks and _create_single_chunk write.
chunk_meta_fields(chunk_id, level, chunk_index, start, end, total, doc_id) ==
    [chunk_id |-> chunk_id, chunk_level |-> level, chunk_index |-> chunk_index,
     chunk_start |-> start, chunk_end |-> end, total_chunks |-> total,
     parent_id |-> None, doc_id |-> doc_id]

\* A step that forgets the overlap.
window_step_without_overlap(chunk_size, overlap) == Max(1, chunk_size)

\* A step that is clamped at 0.
window_step_clamped_at_zero(chunk_size, overlap) == Max(0, chunk_size - overlap)

\* step = max(1, chunk_size - overlap) (line 191).
window_step(chunk_size, overlap) == Max(1, chunk_size - overlap)

\* The while loop of _create_chunks from window `start` on.
RECURSIVE create_chunks_loop(_, _, _, _, _, _, _, _)
create_chunks_loop(words, chunk_size, step, level, doc_id, original_meta, start, chunk_index) ==
    IF ~(start < Len(words)) THEN <<>>
    ELSE LET end == Min(start + chunk_size, Len(words))
             chunk == [content |-> str_join(py_slice(words, start, end)),
                       meta |-> dict_update(original_meta,
                                   chunk_meta_fields(
                                       _generate_chunk_id(doc_id, level, chunk_index),
                                       level, chunk_index, start, end, -1, doc_id))]
         IN  IF end >= Len(words)
             THEN <<chunk>>
             ELSE <<chunk>> \o create_chunks_loop(words, chunk_size, step, level,
                                   doc_id, original_meta, start + step,
                                   chunk_index + 1)

\* Chunks that keep the total_chunks the loop wrote.
_create_chunks_keeping_placeholder(words, chunk_size, overlap, level, doc_id, original_meta) ==
    create_chunks_loop(words, chunk_size, window_step(chunk_size, overlap), level,
                       doc_id, original_meta, 0, 0)

_create_chunks(words, chunk_size, overlap, level, doc_id, original_meta) ==
    LET step == window_step(chunk_size, overlap)
        chunks == create_chunks_loop(words, chunk_size, step, level, doc_id,
                                     original_meta, 0, 0)
    IN  [i \in 1..Len(chunks) |->
            [chunks[i] EXCEPT !.meta["total_chunks"] = Len(chunks)]]

_create_single_chunk(words, level, doc_id, original_meta) ==
    [content |-> str_join(words),
     meta |-> dict_update(original_meta,
                 chunk_meta_fields(_generate_chunk_id(doc_id, level, 0),
                                   level, 0, 0, Len(words), 1, doc_id))]

\* The overlap _assign_parent_ids computes for one child and one parent.
interval_overlap(child, parent) ==
    LET overlap_start == Max(child.meta["chunk_start"], parent.meta["chunk_start"])
        overlap_end == Min(child.meta["chunk_end"], parent.meta["chunk_end"])
    IN  Max(0, overlap_end - overlap_start)

\* A test that lets a later candidate win a tie (>= for >).
replaces_best_on_tie(overlap, best_overlap) == overlap >= best_overlap

\* A test that keeps the first parent that overlaps at all.
replaces_best_first_hit(overlap, best_overlap) == overlap > 0 /\ best_overlap = 0

\* The test that lets a candidate replace the current best parent (line 308).
replaces_best(overlap, best_overlap) == overlap > best_overlap

\* The inner loop of _assign_parent_ids from parent i on: the index in
\* parent_chunks of best_parent, 0 for None.
RECURSIVE best_parent_from(_, _, _, _, _)
best_parent_from(child, parent_chunks, i, best_parent, best_overlap) ==
    IF i > Len(parent_chunks) THEN best_parent
    ELSE LET overlap == interval_overlap(child, parent_chunks[i])
         IN  IF replaces_best(overlap, best_overlap)
             THEN best_parent_from(child, parent_chunks, i + 1, i, overlap)
             ELSE best_parent_from(child, parent_chunks, i + 1, best_parent,
                                   best_overlap)

\* _assign_parent_ids: the child chunks as the call leaves them.
_assign_parent_ids(child_chunks, parent_chunks) ==
    [j \in 1..Len(child_chunks) |->
        LET best_parent == best_parent_from(child_chunks[j], parent_chunks, 1, 0, 0)
        IN  IF best_parent # 0
            THEN [child_chunks[j] EXCEPT !.meta["parent_id"] =
                      parent_chunks[best_parent].meta["chunk_id"]]
            ELSE child_chunks[j]]

\* Chunks left as _create_chunks made them, with parent_id None.
assign_no_parent(chunks, doc_id) == chunks

\* The branch that gives every chunk of a level the virtual parent.
assign_virtual_parent(chunks, doc_id) ==
    [j \in 1..Len(chunks) |->
        [chunks[j] EXCEPT !.meta["parent_id"] = virtual_parent_id(doc_id)]]

\* `"parent" in levels and parent_chunks`: the coarser level was requested
\* and produced chunks (lines 127, 148, 150).
level_generated(level, lv, chunks) == level \in lv /\ chunks # <<>>

\* A check that skips the empty string only.
content_is_empty_string(content) == content = <<>>

\* `not doc.content` (line 72): the content is None or the empty string.
content_is_falsy(content) == content = NoneContent \/ content = <<>>

\* A comparison that sends a document of exactly grandchild_chunk_size
\* words to the multi-level split.
is_small_document_strict(doc_word_count, grandchild_chunk_size) ==
    doc_word_count < grandchild_chunk_size

\* `doc_word_count <= self.grandchild_chunk_size` (line 94).
is_small_document(doc_word_count, grandchild_chunk_size) ==
    doc_word_count <= grandchild_chunk_size

\* One iteration of split_documents' loop: the doc_chunks of one document.
split_one_document(self, doc, doc_idx, lv) ==
    IF content_is_falsy(doc.content) THEN <<>>
    ELSE LET words == str_split(doc.content) IN
    IF words = <<>> THEN <<>>
    ELSE LET doc_id == _generate_doc_id(doc, doc_idx) IN
    IF is_small_document(Len(words), self.grandchild_chunk_size)
    THEN <<_create_single_chunk(words, "grandchild", doc_id, doc.meta)>>
    ELSE LET parent_chunks ==
                 IF "parent" \in lv
                 THEN _create_chunks(words, self.parent_chunk_size,
                                     self.chunk_overlap, "parent", doc_id, doc.meta)
                 ELSE <<>>
             new_children ==
                 IF "child" \in lv
                 THEN _create_chunks(words, self.child_chunk_size,
                                     self.chunk_overlap, "child", doc_id, doc.meta)
                 ELSE <<>>
             child_chunks ==
                 IF level_generated("parent", lv, parent_chunks)
                 THEN _assign_parent_ids(new_children, parent_chunks)
                 ELSE assign_virtual_parent(new_children, doc_id)
             new_grandchildren ==
                 IF "grandchild" \in lv
                 THEN _create_chunks(words, self.grandchild_chunk_size,
                                     self.chunk_overlap, "grandchild", doc_id,
                                     doc.meta)
                 ELSE <<>>
             grandchild_chunks ==
                 IF level_generated("child", lv, child_chunks)
                 THEN _assign_parent_ids(new_grandchildren, child_chunks)
                 ELSE IF level_generated("parent", lv, parent_chunks)
                 THEN _assign_parent_ids(new_grandchildren, parent_chunks)
                 ELSE assign_virtual_parent(new_grandchildren, doc_id)
         IN  parent_chunks \o child_chunks \o grandchild_chunks

\* A loop that splits every document with the meta of the first one.
RECURSIVE split_from_with_first_meta(_, _, _, _)
split_from_with_first_meta(self, docs, doc_idx, lv) ==
    IF doc_idx >= Len(docs) THEN <<>>
    ELSE split_one_document(self, [content |-> docs[doc_idx + 1].content,
                                   meta |-> docs[1].meta], doc_idx, lv)
         \o split_from_with_first_meta(self, docs, doc_idx + 1, lv)

\* A loop that puts each document's chunks in front of the list.
RECURSIVE split_from_prepending(_, _, _, _)
split_from_prepending(self, docs, doc_idx, lv) ==
    IF doc_idx >= Len(docs) THEN <<>>
    ELSE split_from_prepending(self, docs, doc_idx + 1, lv)
         \o split_one_document(self, docs[doc_idx + 1], doc_idx, lv)

\* split_documents' loop over documents[doc_idx..], 0-based.
RECURSIVE split_from(_, _, _, _)
split_from(self, docs, doc_idx, lv) ==
    IF doc_idx >= Len(docs) THEN <<>>
    ELSE split_one_document(self, docs[doc_idx + 1], doc_idx, lv)
         \o split_from(self, docs, doc_idx + 1, lv)

\* A split_documents whose all_chunks outlives the call: the list of the call
\* before is extended instead of a fresh one.
split_documents_keeping_chunks(docs, lv) ==
    LET effective == IF lv = NoneLevels THEN LevelNames ELSE lv
    IN  all_chunks \o split_from(splitter, docs, 0, effective)

\* split_documents(documents, levels): the list it returns.  all_chunks
\* starts as a fresh empty list on every call.
split_documents(docs, lv) ==
    LET effective == IF lv = NoneLevels THEN LevelNames ELSE lv
    IN  <<>> \o split_from(splitter, docs, 0, effective)

\* doc.content.split() (line 77) raises AttributeError on None: it is reached
\* only by a document the check of line 72 did not skip.
split_raises(docs) ==
    \E i \in 1..Len(docs) :
        ~content_is_falsy(docs[i].content) /\ docs[i].content = NoneContent

\* ------------------------------------------------------------ the inputs

Word(i) == "w" \o ToString(i)
WordList(n) == [i \in 1..n |-> Word(i)]

\* " ".join(words), as the tests build their documents.
CleanText(n) == str_join(WordList(n))

\* The same words between other whitespace: a leading newline, newlines
\* between the words, a trailing space.  MessyText(0) is whitespace only.
MessyText(n) ==
    [i \in 1..(2 * n + 1) |->
        IF i % 2 = 0 THEN Word(i \div 2)
        ELSE IF i = 2 * n + 1 THEN " " ELSE "\n"]

NamedMeta == [file_name |-> "a.md", category |-> "Test"]
AnonymousMeta == [k \in {} |-> None]

\* The meta of a chunk that is handed to the splitter again: the file_name
\* and the chunk fields an earlier split wrote.
RechunkedMeta ==
    dict_update([file_name |-> "a.md"],
                chunk_meta_fields("a.md_0_parent_7", "parent", 7, 70, 80, 9, "a.md_0"))

Styles == {"named", "anonymous", "rechunked"}
StyleMeta(style) ==
    CASE style = "named" -> NamedMeta
      [] style = "anonymous" -> AnonymousMeta
      [] OTHER -> RechunkedMeta
StyleText(style, n) == IF style = "anonymous" THEN MessyText(n) ELSE CleanText(n)

\* The documents of one style: no content, and 0..MaxWords words; a chunk
\* handed in again always has words.
StyleDocs(style) ==
    {[content |-> c, meta |-> StyleMeta(style)] :
        c \in IF style = "rechunked"
              THEN {StyleText(style, n) : n \in 1..MaxWords}
              ELSE {NoneContent} \cup {StyleText(style, n) : n \in 0..MaxWords}}

WordCount(doc) ==
    IF doc.content = NoneContent THEN 0 ELSE Len(str_split(doc.content))

RECURSIVE TotalWords(_, _)
TotalWords(docs, i) ==
    IF i > Len(docs) THEN 0 ELSE WordCount(docs[i]) + TotalWords(docs, i + 1)

\* Batches of at most MaxDocs documents holding at most MaxWords words.
Batches ==
    UNION {{b \in [1..k -> StyleDocs(style)] : TotalWords(b, 1) <= MaxWords} :
              <<k, style>> \in (0..MaxDocs) \X Styles}

LevelArgs == {NoneLevels} \cup SUBSET LevelNames

Sizes == 1..MaxSize
Overlaps == (0 - MaxNegOverlap)..MaxOverlap

\* The document sizes of the test suite and of the constructor's defaults.
ScenarioWordCounts == {50, 150, 151, 600, 1000, 1500, 2000, 3000}
ScenarioBatches ==
    {<<[content |-> CleanText(n), meta |-> NamedMeta]>> : n \in ScenarioWordCounts}

\* -------------------------------------------------------------- the loader

Slash == "/"
RootName == <<"root">>
UnknownName == <<"unknown">>
\* None where a string is expected (a path not computed yet, no subcategory).
NoneString == <<None>>

\* sep.join(parts)
RECURSIVE str_join_with(_, _)
str_join_with(sep, parts) ==
    IF parts = <<>> THEN <<>>
    ELSE IF Len(parts) = 1 THEN parts[1]
    ELSE parts[1] \o <<sep>> \o str_join_with(sep, Tail(parts))

\* s.split(sep): the pieces between the separators, empty pieces included.
RECURSIVE str_split_on(_, _)
str_split_on(s, sep) ==
    IF \A i \in 1..Len(s) : s[i] # sep THEN <<s>>
    ELSE LET i == CHOOSE i \in 1..Len(s) : s[i] = sep /\ \A j \in 1..(i - 1) : s[j] # sep
         IN  <<SubSeq(s, 1, i - 1)>> \o str_split_on(SubSeq(s, i + 1, Len(s)), sep)

\* d[k] = v
dict_set(d, k, v) == [x \in DOMAIN d \cup {k} |-> IF x = k THEN v ELSE d[x]]

\* list.insert(0, x)
list_insert_front(l, x) == <<x>> \o l

\* A root entry that names the root as its own parent.
root_folder_map_own_parent(root_folder_id) ==
    dict_set(<<>>, root_folder_id,
             [name |-> RootName, parents |-> <<root_folder_id>>, path |-> RootName])

\* The folder_map _build_folder_hierarchy_from_drive starts from (lines 313-319).
root_folder_map(root_folder_id) ==
    dict_set(<<>>, root_folder_id,
             [name |-> RootName, parents |-> <<>>, path |-> RootName])

\* "Add all folders to map" (lines 322-329), from the i-th folder on.
RECURSIVE add_folders(_, _, _)
add_folders(fm, fs, i) ==
    IF i > Len(fs) THEN fm
    ELSE add_folders(dict_set(fm, fs[i].id,
                              [name |-> fs[i].name, parents |-> fs[i].parents,
                               path |-> NoneString]),
                     fs, i + 1)

\* The keys of that folder_map in the order folder_map.items() yields them:
\* the root, then the folder ids in the order they were first set.
folder_map_keys(fs, root_folder_id) ==
    <<root_folder_id>> \o
    SelectSeq([i \in 1..Len(fs) |-> fs[i].id],
              LAMBDA id : id # root_folder_id)

\* A test that lets the walk go on only into an entry without parents.
parent_is_top(parent_id, fm) ==
    parent_id \in DOMAIN fm /\ fm[parent_id].parents = <<>>

\* `parent_id in folder_map` (line 342).
parent_in_map(parent_id, fm) == parent_id \in DOMAIN fm

\* The walk goes on: `while current_parents` (line 340) without the break of
\* line 348.
walk_goes_on(parents, fm) ==
    IF parents = <<>> THEN FALSE ELSE parent_in_map(parents[1], fm)

\* `parent_info["name"] != "root"` (line 344): the parent's name goes into
\* the path.
name_goes_into_path(name) == name # RootName

\* `if path` (line 424): neither None nor the empty string.
path_is_truthy(path) == path # NoneString /\ path # <<>>

\* `path.split("/") if path else []` (line 424)
path_parts_of(path) ==
    IF path_is_truthy(path) THEN str_split_on(path, Slash) ELSE <<>>

\* A guard that looks at the parent ids only.
no_parent_ids(ids, fm) == ids = <<>>

\* `not parent_ids or not folder_map` (line 404)
no_parent_ids_or_no_folder_map(ids, fm) == ids = <<>> \/ fm = <<>>

_get_google_drive_hierarchy(ids, fm) ==
    IF no_parent_ids_or_no_folder_map(ids, fm)
    THEN [category |-> RootName, subcategory |-> NoneString,
          hierarchy_path |-> RootName, hierarchy_level |-> 0]
    ELSE IF ids[1] \notin DOMAIN fm
    THEN [category |-> UnknownName, subcategory |-> NoneString,
          hierarchy_path |-> UnknownName, hierarchy_level |-> 0]
    ELSE LET path == fm[ids[1]].path
             parts == path_parts_of(path)
         IN  [category |-> IF parts # <<>> THEN parts[1] ELSE RootName,
              subcategory |-> IF Len(parts) > 1 THEN parts[2] ELSE NoneString,
              hierarchy_path |-> path,
              hierarchy_level |-> Len(parts)]

\* A relative path that keeps the last part of the root.
relative_to_from_root_name(path, root_path) == SubSeq(path, Len(root_path), Len(path))

\* Path.relative_to(root_path) for a path below root_path: a path is the
\* sequence of its parts.
relative_to(path, root_path) == SubSeq(path, Len(root_path) + 1, Len(path))

\* The hierarchy fields and the file name of the metadata of a local file
\* (lines 224-249); the fields read from file_path.stat() and the file's
\* suffix are left out.
_extract_hierarchical_metadata(path, root_path) ==
    LET relative_path == relative_to(path, root_path)
        parts == SubSeq(relative_path, 1, Len(relative_path) - 1)
    IN  [file_name |-> path[Len(path)],
         category |-> IF Len(parts) > 0 THEN parts[1] ELSE RootName,
         subcategory |-> IF Len(parts) > 1 THEN parts[2] ELSE NoneString,
         hierarchy_path |-> IF parts # <<>> THEN str_join_with(Slash, parts)
                            ELSE RootName,
         hierarchy_level |-> Len(parts),
         source |-> "local"]

\* ---------------------------------------------------- the loader's inputs

RootId == "R"
UnknownId == "X"
FolderId(i) == "F" \o ToString(i)
FolderNames == {<<"a">>, <<"b">>, RootName}

\* What a folder record's `parents` may hold: nothing, the root, a folder of
\* the list, an id that is in no list, or two ids.
ParentIds == {RootId, UnknownId} \cup {FolderId(i) : i \in 1..MaxFolders}
ParentLists == {<<>>} \cup {<<p>> : p \in ParentIds} \cup {<<UnknownId, RootId>>}

\* Lists of at most MaxFolders folder records with ids F1, F2, ...
FolderLists ==
    UNION {{[i \in 1..k |-> [id |-> FolderId(i), name |-> f[i].name,
                             parents |-> f[i].parents]] :
               f \in [1..k -> [name : FolderNames, parents : ParentLists]]} :
           k \in 0..MaxFolders}

\* A local traversal root and the files below it, at most MaxDepth
\* directories down.
RootPath == <<<<"data">>, <<"kb">>>>
FileName == <<"f.md">>
LocalDirs == UNION {[1..k -> FolderNames] : k \in 0..MaxDepth}
LocalFile(dirs) == RootPath \o dirs \o <<FileName>>

\* ------------------------------------------------------------ the actions

Init ==
    /\ splitter = NoSplitter
    /\ pc = "new"
    /\ documents = <<>>
    /\ levels = NoneLevels
    /\ all_chunks = <<>>
    /\ saved_chunks = <<>>
    /\ lpc = "idle"
    /\ folders = <<>>
    /\ folder_map = <<>>
    /\ todo = <<>>
    /\ folder_id = None
    /\ path_parts = <<>>
    /\ current_parents = <<>>
    /\ parent_ids = <<>>
    /\ file_path = <<>>
    /\ metadata = <<>>
    /\ dpc = "idle"
    /\ load_call = <<>>
    /\ load_result = <<>>
    /\ wpc = "idle"
    /\ window = <<>>
    /\ history = <<>>
    /\ chat_log = <<>>
    /\ document_store = None
    /\ pipeline = [created |-> FALSE]
    /\ indexing_log = <<>>
    /\ github = [constructed |-> FALSE]
    /\ gpc = "new"
    /\ process_call = <<>>
    /\ local_repo = <<>>
    /\ operations = <<>>
    /\ load_repository_call = <<>>
    /\ repository_result = <<>>

\* HierarchicalDocumentSplitter(parent, child, grandchild, overlap): the
\* attributes are assigned, then the sizes are checked.
Construct(parent_chunk_size, child_chunk_size, grandchild_chunk_size, chunk_overlap) ==
    /\ pc = "new"
    /\ splitter' = [constructed |-> TRUE,
                    parent_chunk_size |-> parent_chunk_size,
                    child_chunk_size |-> child_chunk_size,
                    grandchild_chunk_size |-> grandchild_chunk_size,
                    chunk_overlap |-> chunk_overlap]
    /\ pc' = IF sizes_ordered(parent_chunk_size, child_chunk_size,
                              grandchild_chunk_size)
             THEN "ready" ELSE "ValueError"
    /\ UNCHANGED <<documents, levels, all_chunks, saved_chunks>>
    /\ UNCHANGED not_splitter_vars

\* The first split_documents(docs, lv) call on the splitter.
SplitDocuments(docs, lv) ==
    /\ pc = "ready"
    /\ documents' = docs
    /\ levels' = lv
    /\ IF split_raises(docs)
       THEN pc' = "AttributeError" /\ UNCHANGED all_chunks
       ELSE pc' = "returned" /\ all_chunks' = split_documents(docs, lv)
    /\ UNCHANGED <<splitter, saved_chunks>>
    /\ UNCHANGED not_splitter_vars

\* The same call again, on the same splitter with the same arguments; the
\* caller keeps what the call before returned.
SplitAgain ==
    /\ pc \in {"returned", "repeated"}
    /\ saved_chunks' = all_chunks
    /\ all_chunks' = split_documents(documents, levels)
    /\ pc' = "repeated"
    /\ UNCHANGED <<splitter, documents, levels>>
    /\ UNCHANGED not_splitter_vars

\* The caller's steps, with their arguments drawn from the bounded inputs.
ConstructAny ==
    /\ pc = "new"
    /\ \E p \in Sizes, c \in Sizes, g \in Sizes, o \in Overlaps : Construct(p, c, g, o)

SplitAny ==
    /\ pc = "ready"
    /\ \E docs \in Batches, lv \in LevelArgs : SplitDocuments(docs, lv)

Next == ConstructAny \/ SplitAny \/ SplitAgain

Spec == Init /\ [][Next]_vars

\* A batch of `length` documents: `doc` at the d-th place, `other` at every
\* other place.
BatchAround(doc, d, other, length) ==
    [j \in 1..length |-> IF j = d THEN doc ELSE other]

\* What the other documents of such a batch are: documents that are
\* skipped, or documents of MaxWords words from another file.
SkippedDocument == [content |-> NoneContent, meta |-> AnonymousMeta]
OtherDocuments ==
    {SkippedDocument, [content |-> CleanText(MaxWords), meta |-> [file_name |-> "b.md"]]}

SplitAround ==
    /\ pc = "ready"
    /\ \E style \in Styles, length \in 1..MaxDocs, lv \in LevelArgs :
       \E doc \in StyleDocs(style), d \in 1..length, other \in OtherDocuments :
           SplitDocuments(BatchAround(doc, d, other, length), lv)

NextIndependence == ConstructAny \/ SplitAround

\* The splitter on batches in which one document is set among others that
\* do not depend on it.
SpecIndependence == Init /\ [][NextIndependence]_vars

\* The splitter with the constructor's defaults, on the documents of the
\* test suite.
ConstructDefault ==
    Construct(DefaultParentChunkSize, DefaultChildChunkSize,
              DefaultGrandchildChunkSize, DefaultChunkOverlap)

SplitScenario ==
    /\ pc = "ready"
    /\ \E docs \in ScenarioBatches, lv \in LevelArgs : SplitDocuments(docs, lv)

NextDefault == ConstructDefault \/ SplitScenario \/ SplitAgain

SpecDefault == Init /\ [][NextDefault]_vars

\* --------------------------------------------------- the loader's actions

\* _build_folder_hierarchy_from_drive(fs, RootId) up to its second loop: the
\* folder_map with the root and every folder of the list (lines 313-329).
BuildFolderMap(fs) ==
    /\ lpc = "idle"
    /\ folders' = fs
    /\ folder_map' = add_folders(root_folder_map(RootId), fs, 1)
    /\ todo' = folder_map_keys(fs, RootId)
    /\ lpc' = "loop"
    /\ UNCHANGED <<folder_id, path_parts, current_parents, parent_ids, file_path, metadata>>
    /\ UNCHANGED not_loader_vars

BuildAnyFolderMap ==
    /\ lpc = "idle"
    /\ \E fs \in FolderLists : BuildFolderMap(fs)

\* The second loop takes the next key (lines 332-337): the root is skipped,
\* for another folder the walk starts from its own name and parents.
NextFolder ==
    /\ lpc = "loop"
    /\ todo # <<>>
    /\ todo' = Tail(todo)
    /\ folder_id' = Head(todo)
    /\ IF Head(todo) = RootId
       THEN UNCHANGED <<lpc, path_parts, current_parents>>
       ELSE /\ lpc' = "walk"
            /\ path_parts' = <<folder_map[Head(todo)].name>>
            /\ current_parents' = folder_map[Head(todo)].parents
    /\ UNCHANGED <<folders, folder_map, parent_ids, file_path, metadata>>
    /\ UNCHANGED not_loader_vars

\* One iteration of `while current_parents` that does not break (lines
\* 340-346).
WalkStep ==
    /\ lpc = "walk"
    /\ walk_goes_on(current_parents, folder_map)
    /\ Len(path_parts) < MaxPathParts
    /\ LET parent_info == folder_map[current_parents[1]]
       IN  /\ path_parts' = IF name_goes_into_path(parent_info.name)
                            THEN list_insert_front(path_parts, parent_info.name)
                            ELSE path_parts
           /\ current_parents' = parent_info.parents
    /\ UNCHANGED <<lpc, folders, folder_map, todo, folder_id, parent_ids, file_path, metadata>>
    /\ UNCHANGED not_loader_vars

\* The walk ends, on empty current_parents or on the break of line 348, and
\* the folder's path is set (line 350).
WalkEnd ==
    /\ lpc = "walk"
    /\ ~walk_goes_on(current_parents, folder_map)
    /\ folder_map' = [folder_map EXCEPT ![folder_id].path = str_join_with(Slash, path_parts)]
    /\ lpc' = "loop"
    /\ UNCHANGED <<folders, todo, folder_id, path_parts, current_parents, parent_ids, file_path, metadata>>
    /\ UNCHANGED not_loader_vars

\* `return folder_map` (line 352)
ReturnFolderMap ==
    /\ lpc = "loop"
    /\ todo = <<>>
    /\ lpc' = "built"
    /\ UNCHANGED <<folders, folder_map, todo, folder_id, path_parts, current_parents, parent_ids, file_path, metadata>>
    /\ UNCHANGED not_loader_vars

\* _get_google_drive_hierarchy(ids, fm) with the folder_map built, or with
\* an empty one.
GetGoogleDriveHierarchy(ids, fm) ==
    /\ lpc = "built"
    /\ parent_ids' = ids
    /\ folder_map' = fm
    /\ metadata' = _get_google_drive_hierarchy(ids, fm)
    /\ lpc' = "looked_up"
    /\ UNCHANGED <<folders, todo, folder_id, path_parts, current_parents, file_path>>
    /\ UNCHANGED not_loader_vars

GetAnyHierarchy ==
    /\ lpc = "built"
    /\ \E ids \in ParentLists, fm \in {folder_map, <<>>} :
           GetGoogleDriveHierarchy(ids, fm)

\* _extract_hierarchical_metadata(file_path, RootPath) for a file below the
\* root, as load_from_directory calls it (line 78).
ExtractHierarchicalMetadata(path) ==
    /\ lpc = "idle"
    /\ file_path' = path
    /\ metadata' = _extract_hierarchical_metadata(path, RootPath)
    /\ lpc' = "extracted"
    /\ UNCHANGED <<folders, folder_map, todo, folder_id, path_parts, current_parents, parent_ids>>
    /\ UNCHANGED not_loader_vars

ExtractAny ==
    /\ lpc = "idle"
    /\ \E dirs \in LocalDirs : ExtractHierarchicalMetadata(LocalFile(dirs))

NextLoader ==
    \/ BuildAnyFolderMap
    \/ NextFolder
    \/ WalkStep
    \/ WalkEnd
    \/ ReturnFolderMap
    \/ GetAnyHierarchy
    \/ ExtractAny

SpecLoader == Init /\ [][NextLoader]_vars

\* _build_folder_hierarchy_from_drive runs on one thread from its first
\* statement to its return: a statement that can run does run.
FairSpecLoader ==
    /\ SpecLoader
    /\ WF_vars(NextFolder)
    /\ WF_vars(WalkStep)
    /\ WF_vars(WalkEnd)
    /\ WF_vars(ReturnFolderMap)

\* ------------------------------------------------- load_from_directory
\* What is at a path is an entry: a directory with the items iterdir()
\* lists, in the order it lists them, or a file.  A directory that is
\* `denied` makes iterdir() raise PermissionError.  A file is one of
\*   "plain"       f.md, a few words
\*   "code"        f.py, a few words
\*   "large"       F.MD, 20 MB
\*   "empty"       f.md, no content
\*   "unreadable"  f.md, read_text() raises
\*   "stat_fails"  f.md, readable, stat() raises OSError

MegaByte == 1024 * 1024
SmallFileBytes == 100
LargeFileBytes == 20 * MegaByte

file_suffix(file) ==
    CASE file = "code" -> ".py"
      [] file = "large" -> ".MD"
      [] OTHER -> ".md"
file_st_size(file) == IF file = "large" THEN LargeFileBytes ELSE SmallFileBytes
stat_raises(file) == file = "stat_fails"
read_raises(file) == file = "unreadable"
file_text(file) == IF file = "empty" THEN <<>> ELSE CleanText(2)

\* str.lower() on the suffixes and the words of this model.
str_lower(s) ==
    CASE s = ".MD" -> ".md"
      [] s = "EXIT" -> "exit"
      [] s = "Clear" -> "clear"
      [] s = "Foo" -> "foo"
      [] s = "What" -> "what"
      [] OTHER -> s

supported_extensions == {".txt", ".md", ".pdf", ".doc", ".docx"}

\* set(allowed_extensions) if allowed_extensions else supported_extensions;
\* a list of extensions is a sequence, None is NoneString.
extensions_of(allowed) ==
    IF allowed = NoneString \/ allowed = <<>> THEN supported_extensions
    ELSE {allowed[i] : i \in DOMAIN allowed}

\* An optional number is a sequence of at most one number: None is <<>>.
NoNumber == <<>>

\* (max_file_size_mb * 1024 * 1024) if max_file_size_mb else None
max_size_bytes_of(max_mb) ==
    IF max_mb = NoNumber THEN NoNumber
    ELSE IF max_mb[1] = 0 THEN NoNumber
    ELSE <<max_mb[1] * MegaByte>>

\* max_size_bytes and file_path.stat().st_size > max_size_bytes, for a file
\* whose stat() returns.
exceeds_max_size(file, max_size_bytes) ==
    IF max_size_bytes = NoNumber THEN FALSE
    ELSE IF max_size_bytes[1] = 0 THEN FALSE
    ELSE file_st_size(file) > max_size_bytes[1]

\* A result of _traverse_directory: PermissionError, or the file paths.
PermissionDenied == [raised |-> TRUE, file_paths |-> <<>>]
Traversed(paths) == [raised |-> FALSE, file_paths |-> paths]

RECURSIVE traverse_items(_, _, _)
RECURSIVE _traverse_directory(_, _)

\* A traversal that passes over the directories it may not list.
_traverse_directory_skipping_denied(path, directory) ==
    IF directory.denied THEN Traversed(<<>>)
    ELSE traverse_items(path, directory.items, 1)

\* The loop of lines 177-182 from the i-th item on: a directory is
\* traversed by the recursive call, a file is appended; an exception of
\* the recursive call ends the loop.
traverse_items(path, items, i) ==
    IF i > Len(items) THEN Traversed(<<>>)
    ELSE LET item == items[i]
             item_path == path \o <<item.name>>
             here == IF item.kind = "dir"
                     THEN _traverse_directory(item_path, item)
                     ELSE Traversed(<<[path |-> item_path, file |-> item.file]>>)
         IN  IF here.raised THEN PermissionDenied
             ELSE LET rest == traverse_items(path, items, i + 1)
                  IN  IF rest.raised THEN PermissionDenied
                      ELSE Traversed(here.file_paths \o rest.file_paths)

\* _traverse_directory(directory): iterdir() raises PermissionError on a
\* directory that may not be listed, and the except clause raises it again.
_traverse_directory(path, directory) ==
    IF directory.denied THEN PermissionDenied
    ELSE traverse_items(path, directory.items, 1)

\* _read_file_content: every exception of the read gives "".
_read_file_content(file) == IF read_raises(file) THEN <<>> ELSE file_text(file)

\* What the body of the loop of load_from_directory does with one file:
\* "skipped" (continue), "loaded" (a document is appended) or "raised" (an
\* exception leaves the loop).
Skipped == [outcome |-> "skipped", documents |-> <<>>]
Raised == [outcome |-> "raised", documents |-> <<>>]
Loaded(document) == [outcome |-> "loaded", documents |-> <<document>>]

\* Line 66, outside the try block: file_path.stat() is called only when a
\* maximum is set, and its exception leaves load_from_directory.
size_check_raises(file, max_size_bytes) ==
    IF max_size_bytes = NoNumber THEN FALSE
    ELSE IF max_size_bytes[1] = 0 THEN FALSE
    ELSE stat_raises(file)

load_file(file_path_, root, extensions, max_size_bytes, extra_meta) ==
    LET file == file_path_.file
    IN  IF str_lower(file_suffix(file)) \notin extensions THEN Skipped
        ELSE IF size_check_raises(file, max_size_bytes) THEN Raised
        ELSE IF exceeds_max_size(file, max_size_bytes) THEN Skipped
        ELSE LET content == _read_file_content(file)
             IN  IF content = <<>> THEN Skipped
                 \* file_path.stat() of line 235 raises inside the try
                 \* block: lines 91-93 skip the file
                 ELSE IF stat_raises(file) THEN Skipped
                 ELSE LET meta == _extract_hierarchical_metadata(file_path_.path, root)
                      IN  Loaded([content |-> content,
                                  meta |-> IF extra_meta = <<>> THEN meta
                                           ELSE dict_update(meta, extra_meta)])

\* The loop of lines 59-93 from the i-th file path on.
RECURSIVE load_files(_, _, _, _, _, _)
load_files(file_paths, i, root, extensions, max_size_bytes, extra_meta) ==
    IF i > Len(file_paths) THEN [raised |-> "none", documents |-> <<>>]
    ELSE LET one == load_file(file_paths[i], root, extensions, max_size_bytes, extra_meta)
         IN  IF one.outcome = "raised" THEN [raised |-> "OSError", documents |-> <<>>]
             ELSE LET rest == load_files(file_paths, i + 1, root, extensions,
                                         max_size_bytes, extra_meta)
                  IN  IF rest.raised # "none" THEN rest
                      ELSE [raised |-> "none",
                            documents |-> one.documents \o rest.documents]

\* load_from_directory(root_path, allowed_extensions, max_file_size_mb,
\* additional_metadata), with `entry` what is at root_path.
load_from_directory(entry, root, allowed, max_mb, extra_meta) ==
    IF entry.kind = "missing" THEN [raised |-> "ValueError", documents |-> <<>>]
    ELSE IF entry.kind # "dir" THEN [raised |-> "ValueError", documents |-> <<>>]
    ELSE LET traversal == _traverse_directory(root, entry)
         IN  IF traversal.raised
             THEN [raised |-> "PermissionError", documents |-> <<>>]
             ELSE load_files(traversal.file_paths, 1, root, extensions_of(allowed),
                             max_size_bytes_of(max_mb), extra_meta)

\* ------------------------------------- the inputs of load_from_directory
FileKinds == {"plain", "code", "large", "empty", "unreadable", "stat_fails"}

FileEntry(j, file) ==
    [kind |-> "file", name |-> <<"f" \o ToString(j) \o file_suffix(file)>>,
     denied |-> FALSE, items |-> <<>>, file |-> file]
DirEntry(name, denied, items) ==
    [kind |-> "dir", name |-> name, denied |-> denied, items |-> items, file |-> None]
MissingEntry ==
    [kind |-> "missing", name |-> <<"kb">>, denied |-> FALSE, items |-> <<>>, file |-> None]

\* The shape of a directory: each of its items is a file, a directory that
\* may not be listed, or a directory of 0..MaxFiles files.
ItemShapes ==
    {[kind |-> "file", denied |-> FALSE, files |-> 1],
     [kind |-> "dir", denied |-> TRUE, files |-> 0]}
    \cup {[kind |-> "dir", denied |-> FALSE, files |-> k] : k \in 0..MaxFiles}

RECURSIVE FilesBefore(_, _)
FilesBefore(shape, i) ==
    IF i <= 1 THEN 0 ELSE shape[i - 1].files + FilesBefore(shape, i - 1)

DirectoryShapes ==
    {shape \in UNION {[1..n -> ItemShapes] : n \in 0..MaxEntries} :
        FilesBefore(shape, Len(shape) + 1) <= MaxFiles}

\* The directory of a shape, its files being of the given kinds: the files
\* are f1, f2, ... in the order of the traversal, the i-th item, when a
\* directory, is d<i>.
TreeOf(shape, kinds) ==
    DirEntry(<<"kb">>, FALSE,
             [i \in 1..Len(shape) |->
                 LET before == FilesBefore(shape, i)
                 IN  IF shape[i].kind = "file"
                     THEN FileEntry(before + 1, kinds[before + 1])
                     ELSE DirEntry(<<"d" \o ToString(i)>>, shape[i].denied,
                                   [j \in 1..shape[i].files |->
                                       FileEntry(before + j, kinds[before + j])])])

\* What may be at root_path: nothing, a file, a directory that may not be
\* listed, a directory of at most MaxEntries items and MaxFiles files.
RootEntries ==
    {MissingEntry, FileEntry(1, "plain"), DirEntry(<<"kb">>, TRUE, <<>>)}
    \cup UNION {{TreeOf(shape, kinds) :
                    kinds \in [1..FilesBefore(shape, Len(shape) + 1) -> FileKinds]} :
                shape \in DirectoryShapes}

\* The other arguments: no list of extensions or the list of a caller that
\* wants code files too; no maximum, 0 or 10 MB; no additional metadata or
\* that of load_repository (github_loader.py, lines 203-207).
ExtensionLists == {NoneString, <<".md", ".py">>}
MaxFileSizes == {NoNumber, <<0>>, <<10>>}
NoMetadata == [k \in {} |-> None]
RepositoryMetadata ==
    [repository |-> "owner/repo", source |-> "github", local_path |-> "data/kb"]
AdditionalMetadata == {NoMetadata, RepositoryMetadata}

\* load_from_directory(RootPath, ...) with `entry` at RootPath.
LoadFromDirectory(entry, allowed, max_mb, extra_meta) ==
    /\ dpc = "idle"
    /\ load_call' = [root_path |-> entry, allowed_extensions |-> allowed,
                     max_file_size_mb |-> max_mb, additional_metadata |-> extra_meta]
    /\ LET result == load_from_directory(entry, RootPath, allowed, max_mb, extra_meta)
       IN  /\ dpc' = IF result.raised = "none" THEN "returned" ELSE result.raised
           /\ load_result' = result.documents
    /\ UNCHANGED not_directory_vars

LoadFromAnyDirectory ==
    /\ dpc = "idle"
    /\ \E entry \in RootEntries, allowed \in ExtensionLists,
          max_mb \in MaxFileSizes, extra_meta \in AdditionalMetadata :
           LoadFromDirectory(entry, allowed, max_mb, extra_meta)

NextDirectory == LoadFromAnyDirectory

SpecDirectory == Init /\ [][NextDirectory]_vars

\* ------------------------------------------------ GitHubRepositoryLoader
\* (src/src/github_loader.py)

\* self.allowed_extensions of lines 31-62
DefaultAllowedExtensions ==
    <<".py", ".js", ".ts", ".jsx", ".tsx", ".md", ".txt", ".rst", ".yaml",
      ".yml", ".json", ".toml", ".sh", ".bash", ".zsh", ".go", ".rs", ".java",
      ".cpp", ".c", ".h", ".html", ".css", ".scss", ".sql", ".graphql",
      ".dockerfile", ".dockerignore", ".gitignore", ".env.example">>

\* self.max_file_size_mb of line 30
DefaultMaxFileSizeMb == 10

\* self.local_repos_dir of line 29, Path.home() / "Coding"
LocalReposDir == <<<<"home">>, <<"Coding">>>>

\* str.strip(): without the whitespace at both ends.
RECURSIVE str_strip(_)
str_strip(s) ==
    IF s = <<>> THEN s
    ELSE IF IsSpace(s[1]) THEN str_strip(Tail(s))
    ELSE IF IsSpace(s[Len(s)]) THEN str_strip(SubSeq(s, 1, Len(s) - 1))
    ELSE s

\* parse_repo_name: the parts of "owner/repo", or ValueError.
repo_parts(repo_identifier) == str_split_on(str_strip(repo_identifier), Slash)
parse_repo_name_raises(repo_identifier) == Len(repo_parts(repo_identifier)) # 2
parse_repo_name(repo_identifier) == repo_parts(repo_identifier)

\* get_local_repo_path: local_dir / repo_name
get_local_repo_path(repo_identifier) ==
    LocalReposDir \o <<parse_repo_name(repo_identifier)[2]>>

\* What is at repo_path: nothing, or a directory, with a .git directory in
\* it or without.
NoRepo == [exists |-> FALSE, git |-> FALSE, entry |-> MissingEntry]
RepoDirectory(entry, git) == [exists |-> TRUE, git |-> git, entry |-> entry]

\* check_local_repo(repo_path)
check_local_repo(repo) == IF ~repo.exists THEN FALSE ELSE repo.git

\* A check that is content with any directory at repo_path.
found_local_any_directory(repo, force_clone) == repo.exists /\ ~force_clone

\* Line 249: self.check_local_repo(repo_path) and not force_clone
found_local(repo, force_clone) == check_local_repo(repo) /\ ~force_clone

\* Lines 211-216: the category becomes the repository name, the category of
\* the hierarchical loader goes in front of the subcategory.
override_category(doc, repo_name) ==
    LET original_category == doc.meta.category
        with_subcategory ==
            IF original_category # RootName
            THEN dict_set(doc.meta, "subcategory",
                          original_category \o <<Slash>> \o doc.meta.subcategory)
            ELSE doc.meta
    IN  [content |-> doc.content,
         meta |-> dict_set(with_subcategory, "category", repo_name)]

\* Lines 219-220: documents[:max_documents]
limit_documents(docs, max_documents) ==
    IF max_documents = NoNumber THEN docs
    ELSE IF max_documents[1] = 0 THEN docs
    ELSE IF Len(docs) > max_documents[1] THEN SubSeq(docs, 1, max_documents[1])
    ELSE docs

\* The arguments of the load_from_directory call of lines 199-208.
load_repository_arguments(self, repo_identifier, repo) ==
    [root_path |-> repo.entry,
     allowed_extensions |-> self.allowed_extensions,
     max_file_size_mb |-> <<self.max_file_size_mb>>,
     additional_metadata |->
         [repository |-> repo_identifier, source |-> "github",
          local_path |-> str_join_with(Slash, get_local_repo_path(repo_identifier))]]

\* load_repository(repo_identifier, repo_path, max_documents): what it
\* raises ("none" when it returns) and the documents it returns.
load_repository(self, repo_identifier, repo, max_documents) ==
    IF ~repo.exists THEN [raised |-> "none", documents |-> <<>>]
    ELSE LET repo_name == parse_repo_name(repo_identifier)[2]
             args == load_repository_arguments(self, repo_identifier, repo)
             result == load_from_directory(args.root_path,
                                           get_local_repo_path(repo_identifier),
                                           args.allowed_extensions,
                                           args.max_file_size_mb,
                                           args.additional_metadata)
         IN  IF result.raised # "none" THEN result
             ELSE [raised |-> "none",
                   documents |->
                       limit_documents(
                           [i \in DOMAIN result.documents |->
                               override_category(result.documents[i], repo_name)],
                           max_documents)]

\* --------------------------------------- the inputs of process_repository
OwnerRepo == <<"owner", "/", "repo">>
RepoIdentifiers == {OwnerRepo, <<" ">> \o OwnerRepo \o <<"\n">>, <<"repo">>}

FileShape == [kind |-> "file", denied |-> FALSE, files |-> 1]
DirShape(denied, n) == [kind |-> "dir", denied |-> denied, files |-> n]

\* The working trees of a repository: empty; a markdown file and a
\* directory with a code file; a directory that may not be listed; a file
\* whose stat() raises.
RepositoryTrees ==
    {TreeOf(<<>>, <<>>),
     TreeOf(<<FileShape, DirShape(FALSE, 1)>>, <<"plain", "code">>),
     TreeOf(<<FileShape, DirShape(TRUE, 0)>>, <<"plain">>),
     TreeOf(<<FileShape>>, <<"stat_fails">>)}

LocalRepos ==
    {NoRepo} \cup {RepoDirectory(tree, git) : tree \in RepositoryTrees, git \in BOOLEAN}

MaxDocumentsArgs == {NoNumber, <<1>>}

\* GitHubRepositoryLoader(config)
NewGitHubLoader ==
    /\ gpc = "new"
    /\ github' = [constructed |-> TRUE,
                  max_file_size_mb |-> DefaultMaxFileSizeMb,
                  allowed_extensions |-> DefaultAllowedExtensions]
    /\ gpc' = "idle"
    /\ UNCHANGED <<process_call, local_repo, operations, load_repository_call,
                   repository_result>>
    /\ UNCHANGED not_github_vars

\* process_repository(...) up to the test of line 249, with `repo` at
\* repo_path when it is called.
ProcessRepository(repo_identifier, repo, force_clone, update_existing, max_documents) ==
    /\ gpc = "idle"
    /\ process_call' = [repo_identifier |-> repo_identifier, repo |-> repo,
                        force_clone |-> force_clone,
                        update_existing |-> update_existing,
                        max_documents |-> max_documents]
    /\ local_repo' = repo
    /\ gpc' = IF parse_repo_name_raises(repo_identifier) THEN "ValueError"
              ELSE IF found_local(repo, force_clone) THEN "found_local"
              ELSE "to_clone"
    /\ UNCHANGED <<github, operations, load_repository_call, repository_result>>
    /\ UNCHANGED not_github_vars

ProcessAnyRepository ==
    /\ gpc = "idle"
    /\ \E repo_identifier \in RepoIdentifiers, repo \in LocalRepos,
          force_clone \in BOOLEAN, update_existing \in BOOLEAN,
          max_documents \in MaxDocumentsArgs :
           ProcessRepository(repo_identifier, repo, force_clone, update_existing,
                             max_documents)

\* Lines 253-256: update_repo pulls, or fails and returns False; its result
\* is not looked at.
UpdateRepo ==
    /\ gpc = "found_local"
    /\ process_call.update_existing
    /\ \E success \in BOOLEAN :
           operations' = Append(operations, IF success THEN "update" ELSE "update_failed")
    /\ repository_result' = [documents |-> <<>>, status |-> "Found local"]
    /\ gpc' = "to_load"
    /\ UNCHANGED <<github, process_call, local_repo, load_repository_call>>
    /\ UNCHANGED not_github_vars

\* Lines 253-256 with update_existing false.
KeepLocalRepo ==
    /\ gpc = "found_local"
    /\ ~process_call.update_existing
    /\ repository_result' = [documents |-> <<>>, status |-> "Found local"]
    /\ gpc' = "to_load"
    /\ UNCHANGED <<github, process_call, local_repo, operations, load_repository_call>>
    /\ UNCHANGED not_github_vars

\* Lines 259-263: shutil.rmtree(repo_path) removes the directory, or raises
\* and process_repository ends with its exception.
RemoveExisting ==
    /\ gpc = "to_clone"
    /\ process_call.force_clone
    /\ local_repo.exists
    /\ \/ /\ operations' = Append(operations, "rmtree")
          /\ local_repo' = NoRepo
          /\ UNCHANGED gpc
       \/ /\ operations' = Append(operations, "rmtree_failed")
          /\ gpc' = "OSError"
          /\ UNCHANGED local_repo
    /\ UNCHANGED <<github, process_call, load_repository_call, repository_result>>
    /\ UNCHANGED not_github_vars

\* Lines 265-269: clone_repo succeeds and leaves a working tree with a .git
\* directory at repo_path, or fails.
CloneRepo ==
    /\ gpc = "to_clone"
    /\ ~(process_call.force_clone /\ local_repo.exists)
    /\ \/ \E tree \in RepositoryTrees :
              /\ operations' = Append(operations, "clone")
              /\ local_repo' = RepoDirectory(tree, TRUE)
              /\ repository_result' = [documents |-> <<>>, status |-> "Cloned"]
              /\ gpc' = "to_load"
       \/ /\ operations' = Append(operations, "clone_failed")
          /\ repository_result' = [documents |-> <<>>, status |-> "Failed to clone"]
          /\ gpc' = "returned"
          /\ UNCHANGED local_repo
    /\ UNCHANGED <<github, process_call, load_repository_call>>
    /\ UNCHANGED not_github_vars

\* Lines 272-274: load_repository, and the return.
LoadRepository ==
    /\ gpc = "to_load"
    /\ operations' = Append(operations, "load")
    /\ load_repository_call' =
           IF local_repo.exists
           THEN load_repository_arguments(github, process_call.repo_identifier, local_repo)
           ELSE load_repository_call
    /\ LET result == load_repository(github, process_call.repo_identifier, local_repo,
                                     process_call.max_documents)
       IN  IF result.raised # "none"
           THEN gpc' = result.raised /\ UNCHANGED repository_result
           ELSE /\ gpc' = "returned"
                /\ repository_result' = [documents |-> result.documents,
                                         status |-> repository_result.status]
    /\ UNCHANGED <<github, process_call, local_repo>>
    /\ UNCHANGED not_github_vars

NextGitHub ==
    \/ NewGitHubLoader
    \/ ProcessAnyRepository
    \/ UpdateRepo
    \/ KeepLocalRepo
    \/ RemoveExisting
    \/ CloneRepo
    \/ LoadRepository

SpecGitHub == Init /\ [][NextGitHub]_vars

\* ------------------------------------- the while loop of _create_chunks
\* _create_chunks statement by statement, for a document of total_words
\* words and any integer chunk_size and overlap; only the window of each
\* chunk is kept.
WindowSizes == (0 - MaxNegOverlap)..MaxSize

\* Lines 190-194: total_words, step, start = 0.
CreateChunks(total_words, chunk_size, overlap) ==
    /\ wpc = "idle"
    /\ window' = [total_words |-> total_words, chunk_size |-> chunk_size,
                  overlap |-> overlap, step |-> window_step(chunk_size, overlap),
                  start |-> 0, windows |-> <<>>]
    /\ wpc' = "loop"
    /\ UNCHANGED not_window_vars

CreateAnyChunks ==
    /\ wpc = "idle"
    /\ \E total_words \in 0..MaxWords, chunk_size \in WindowSizes, overlap \in Overlaps :
           CreateChunks(total_words, chunk_size, overlap)

\* One pass through the body of the loop (lines 197-233): the window
\* [start, min(start + chunk_size, total_words)) is appended, start moves on
\* by step, and the loop is left when the window reached the end.
WindowIteration ==
    /\ wpc = "loop"
    /\ window.start < window.total_words
    /\ LET end == Min(window.start + window.chunk_size, window.total_words)
       IN  /\ window' = [window EXCEPT !.windows = Append(@, <<window.start, end>>),
                                       !.start = @ + window.step]
           /\ wpc' = IF end >= window.total_words THEN "done" ELSE "loop"
    /\ UNCHANGED not_window_vars

\* The test of line 197 fails: the loop is over.
WindowLoopExit ==
    /\ wpc = "loop"
    /\ ~(window.start < window.total_words)
    /\ wpc' = "done"
    /\ UNCHANGED window
    /\ UNCHANGED not_window_vars

NextWindow == CreateAnyChunks \/ WindowIteration \/ WindowLoopExit

SpecWindow == Init /\ [][NextWindow]_vars

\* _create_chunks runs on one thread: a statement that can run does run.
FairSpecWindow == SpecWindow /\ WF_vars(WindowIteration) /\ WF_vars(WindowLoopExit)

\* ----------------------------------------------------------- ChatInterface
\* (src/src/chat_interface.py) An input is a text: "/" is a token of its
\* own, "" is the empty text.

\* user_input.lower()
text_lower(s) == [i \in DOMAIN s |-> str_lower(s[i])]

\* user_input.startswith("/")
starts_with_slash(s) == IF s = <<>> THEN FALSE ELSE s[1] = Slash

Command(name) == <<Slash, name>>

\* What becomes of a query: the pipeline returns a result and the answer is
\* displayed, the pipeline raises, or the pipeline returns and displaying
\* the answer raises.
QueryOutcomes == {"answered", "query_raised", "display_raised"}

\* The result of query_pipeline.query(question), lines 149-159 of
\* query_pipeline.py.
query_result(question) == [query |-> question, answer |-> <<"re", ":">> \o question]

\* A history that gets its entry before the answer is displayed.
history_after_query_appending_first(h, user_input, outcome) ==
    IF outcome = "query_raised" THEN h
    ELSE Append(h, [query |-> query_result(user_input).query,
                    answer |-> query_result(user_input).answer])

\* Lines 201-215: the entry is appended after query and display_answer have
\* returned; an exception of either is caught before that.
history_after_query(h, user_input, outcome) ==
    IF outcome # "answered" THEN h
    ELSE Append(h, [query |-> query_result(user_input).query,
                    answer |-> query_result(user_input).answer])

\* process_query(user_input) on a ChatInterface with history h: the history
\* after the call, whether query_pipeline.query was called, and the value
\* returned.
process_query(h, user_input, outcome) ==
    IF user_input = <<>>
    THEN [history |-> h, called |-> FALSE, returned |-> TRUE]
    ELSE IF starts_with_slash(user_input)
    THEN LET command == text_lower(user_input)
         IN  IF command = Command("help")
             THEN [history |-> h, called |-> FALSE, returned |-> TRUE]
             ELSE IF command = Command("quit") \/ command = Command("exit")
             THEN [history |-> h, called |-> FALSE, returned |-> FALSE]
             ELSE IF command = Command("history")
             THEN [history |-> h, called |-> FALSE, returned |-> TRUE]
             ELSE IF command = Command("clear")
             THEN [history |-> <<>>, called |-> FALSE, returned |-> TRUE]
             ELSE [history |-> h, called |-> FALSE, returned |-> TRUE]
    ELSE [history |-> history_after_query(h, user_input, outcome),
          called |-> TRUE, returned |-> TRUE]

\* The inputs: nothing, the commands (two of them in other letters), a
\* command there is not, two questions, and a blank.
UserInputs ==
    {<<>>, Command("help"), Command("quit"), Command("EXIT"), Command("history"),
     Command("clear"), Command("Clear"), Command("Foo"),
     <<"What", " ", "now">>, <<"why">>, <<" ">>}

ProcessQuery(user_input, outcome) ==
    /\ Len(chat_log) < MaxQueries
    /\ LET result == process_query(history, user_input, outcome)
       IN  /\ history' = result.history
           /\ chat_log' = Append(chat_log,
                  [user_input |-> user_input,
                   outcome |-> IF result.called THEN outcome ELSE "not_called",
                   returned |-> result.returned])
    /\ UNCHANGED not_chat_vars

ProcessAnyQuery ==
    /\ Len(chat_log) < MaxQueries
    /\ \E user_input \in UserInputs, outcome \in QueryOutcomes :
           ProcessQuery(user_input, outcome)

NextChat == ProcessAnyQuery

SpecChat == Init /\ [][NextChat]_vars

\* -------------------------------------------------------- IndexingPipeline
\* (src/src/indexing_pipeline.py) `self` is the pair of the attributes
\* document_store and pipeline.  An operation gives the attributes after
\* it, how it ended ("returned", "ValueError", or "raised" when a call to
\* Qdrant, Ollama or Haystack raised) and whether it ran the pipeline.
\* `fails` says whether the service the operation calls raises.
NoPipeline == [created |-> FALSE]
PipelineTo(store) == [created |-> TRUE, store |-> store]

Ended(self, outcome, ran) ==
    [document_store |-> self.document_store, pipeline |-> self.pipeline,
     outcome |-> outcome, ran |-> ran]

\* setup_document_store: a new store, the n-th of this IndexingPipeline.
setup_document_store(self, n, fails) ==
    IF fails THEN Ended(self, "raised", FALSE)
    ELSE Ended([self EXCEPT !.document_store = "store" \o ToString(n)],
               "returned", FALSE)

\* create_indexing_pipeline: the components are made (lines 51-61), then
\* the pipeline is assigned and wired (lines 64-71).
create_indexing_pipeline(self, fails) ==
    IF self.document_store = None THEN Ended(self, "ValueError", FALSE)
    ELSE IF fails THEN Ended(self, "raised", FALSE)
    ELSE Ended([self EXCEPT !.pipeline = PipelineTo(self.document_store)],
               "returned", FALSE)

SUPPORTED_MIME_TYPES ==
    {"text/plain", "application/vnd.google-apps.document", "application/pdf",
     "application/vnd.openxmlformats-officedocument.wordprocessingml.document"}

\* convert_documents: the raw documents with no MIME type or a supported one.
\* raw_doc["metadata"] raises KeyError for a raw document without metadata.
convert_documents_raises(raw_documents) ==
    \E n \in DOMAIN raw_documents : ~raw_documents[n].has_metadata

convert_documents(raw_documents) ==
    SelectSeq(raw_documents,
              LAMBDA raw_doc : ~(raw_doc.mimeType # "" /\ raw_doc.mimeType \notin SUPPORTED_MIME_TYPES))

\* A process_documents that goes on without a pipeline.
process_documents_unguarded(self, raw_documents, fails) ==
    IF convert_documents_raises(raw_documents) THEN Ended(self, "raised", FALSE)
    ELSE IF convert_documents(raw_documents) = <<>> THEN Ended(self, "returned", FALSE)
    ELSE IF fails THEN Ended(self, "raised", TRUE)
    ELSE Ended(self, "returned", TRUE)

\* process_documents(raw_documents)
process_documents(self, raw_documents, fails) ==
    IF ~self.pipeline.created THEN Ended(self, "ValueError", FALSE)
    ELSE IF convert_documents_raises(raw_documents) THEN Ended(self, "raised", FALSE)
    ELSE IF convert_documents(raw_documents) = <<>> THEN Ended(self, "returned", FALSE)
    ELSE IF fails THEN Ended(self, "raised", TRUE)
    ELSE Ended(self, "returned", TRUE)

\* get_collection_info
get_collection_info(self, fails) ==
    IF self.document_store = None THEN Ended(self, "ValueError", FALSE)
    ELSE IF fails THEN Ended(self, "raised", FALSE)
    ELSE Ended(self, "returned", FALSE)

\* cleanup
cleanup(self) ==
    Ended([document_store |-> None, pipeline |-> NoPipeline], "returned", FALSE)

\* The raw documents handed to process_documents: none, an image, a text,
\* a raw document without metadata.
RawDocumentLists ==
    {<<>>, <<[content |-> "png", mimeType |-> "image/png", has_metadata |-> TRUE]>>,
     <<[content |-> "text", mimeType |-> "text/plain", has_metadata |-> TRUE]>>,
     <<[content |-> "text", mimeType |-> "", has_metadata |-> FALSE]>>}

Self == [document_store |-> document_store, pipeline |-> pipeline]
SetupsSoFar ==
    Cardinality({n \in DOMAIN indexing_log : indexing_log[n].operation = "setup_document_store"})

\* One operation, from the call to its end.
Operate(operation, result) ==
    /\ Len(indexing_log) < MaxOperations
    /\ document_store' = result.document_store
    /\ pipeline' = result.pipeline
    /\ indexing_log' = Append(indexing_log,
           [operation |-> operation, before |-> Self,
            after |-> [document_store |-> result.document_store,
                       pipeline |-> result.pipeline],
            outcome |-> result.outcome, ran |-> result.ran])
    /\ UNCHANGED not_indexing_vars

SetupDocumentStore ==
    \E fails \in BOOLEAN :
        Operate("setup_document_store",
                setup_document_store(Self, SetupsSoFar + 1, fails))

CreateIndexingPipeline ==
    \E fails \in BOOLEAN :
        Operate("create_indexing_pipeline", create_indexing_pipeline(Self, fails))

ProcessDocuments ==
    \E raw_documents \in RawDocumentLists, fails \in BOOLEAN :
        Operate("process_documents", process_documents(Self, raw_documents, fails))

GetCollectionInfo ==
    \E fails \in BOOLEAN :
        Operate("get_collection_info", get_collection_info(Self, fails))

Cleanup == Operate("cleanup", cleanup(Self))

NextIndexing ==
    \/ SetupDocumentStore
    \/ CreateIndexingPipeline
    \/ ProcessDocuments
    \/ GetCollectionInfo
    \/ Cleanup

SpecIndexing == Init /\ [][NextIndexing]_vars

\* ------------------------------------------------------- reading a result

Returned == pc \in {"returned", "repeated"}
EffectiveLevels == IF levels = NoneLevels THEN LevelNames ELSE levels

\* The doc_id of the d-th document of the batch (d = 1 is batch index 0).
DocId(d) == _generate_doc_id(documents[d], d - 1)
DocIndexes == 1..Len(documents)

\* The returned chunks of document d, and those of one level, in output order.
DocChunks(d) ==
    LET id == DocId(d)
    IN  SelectSeq(all_chunks, LAMBDA c : c.meta["doc_id"] = id)
LevelChunks(d, level) ==
    LET id == DocId(d)
    IN  SelectSeq(all_chunks,
                  LAMBDA c : c.meta["doc_id"] = id /\ c.meta["chunk_level"] = level)

Rank(level) == CASE level = "parent" -> 1 [] level = "child" -> 2 [] OTHER -> 3
LevelSize(level) ==
    CASE level = "parent" -> splitter.parent_chunk_size
      [] level = "child" -> splitter.child_chunk_size
      [] OTHER -> splitter.grandchild_chunk_size

ChunkIds(chunks) == {chunks[k].meta["chunk_id"] : k \in 1..Len(chunks)}
Interval(c) == <<c.meta["chunk_start"], c.meta["chunk_end"]>>

\* max(0, min(c.chunk_end, p.chunk_end) - max(c.chunk_start, p.chunk_start))
Shared(c, p) ==
    LET lo == IF c.meta["chunk_start"] >= p.meta["chunk_start"]
              THEN c.meta["chunk_start"] ELSE p.meta["chunk_start"]
        hi == IF c.meta["chunk_end"] <= p.meta["chunk_end"]
              THEN c.meta["chunk_end"] ELSE p.meta["chunk_end"]
    IN  IF hi - lo > 0 THEN hi - lo ELSE 0

\* The first chunk of `coarser` (lowest index) whose overlap with c is maximal.
FirstMaxOverlap(c, coarser) ==
    CHOOSE k \in 1..Len(coarser) :
        /\ \A m \in 1..Len(coarser) : Shared(c, coarser[m]) <= Shared(c, coarser[k])
        /\ \A m \in 1..(k - 1) : Shared(c, coarser[m]) < Shared(c, coarser[k])

\* The level whose chunks a level's chunks are handed to _assign_parent_ids
\* with: the nearest coarser level requested, "none" when there is none.
LinkLevel(level) ==
    CASE level = "child" /\ "parent" \in EffectiveLevels -> "parent"
      [] level = "grandchild" /\ "child" \in EffectiveLevels -> "child"
      [] level = "grandchild" /\ "parent" \in EffectiveLevels -> "parent"
      [] OTHER -> "none"

\* ceil(a / b) for a >= 0, b > 0
CeilDiv(a, b) == (a + b - 1) \div b

\* ------------------------------------------------------------- the claims

\* C10: constructing a splitter raises ValueError if and only if the sizes
\* violate parent_chunk_size > child_chunk_size > grandchild_chunk_size, so
\* every splitter split_documents runs on has strictly ordered sizes.
C10_ValueErrorIffUnordered ==
    LET ordered == /\ splitter.parent_chunk_size > splitter.child_chunk_size
                   /\ splitter.child_chunk_size > splitter.grandchild_chunk_size
    IN  /\ pc = "ValueError" <=> (splitter.constructed /\ ~ordered)
        /\ pc \in {"ready", "returned", "repeated", "AttributeError"} => ordered

\* C10's case: a constructor call with two equal sizes has raised ValueError.
C10_Witness ==
    /\ pc = "ValueError"
    /\ splitter.parent_chunk_size > splitter.child_chunk_size
    /\ splitter.child_chunk_size = splitter.grandchild_chunk_size

C8_SmallDocumentSingleChunk ==
    Returned =>
        \A d \in DocIndexes :
            LET n == WordCount(documents[d])
                chunks == DocChunks(d)
            IN  (1 <= n /\ n <= splitter.grandchild_chunk_size) =>
                    /\ Len(chunks) = 1
                    /\ chunks[1].meta["chunk_level"] = "grandchild"
                    /\ chunks[1].meta["chunk_index"] = 0
                    /\ chunks[1].meta["chunk_start"] = 0
                    /\ chunks[1].meta["chunk_end"] = n
                    /\ chunks[1].meta["total_chunks"] = 1
                    /\ chunks[1].meta["parent_id"] = None
                    /\ Len(chunks[1].content) = 2 * n - 1
                    /\ \A i \in 1..(2 * n - 1) :
                           chunks[1].content[i] =
                               IF i % 2 = 1 THEN Word((i + 1) \div 2) ELSE " "

\* C8's case: a document of exactly grandchild_chunk_size words, written with
\* other whitespace than single spaces, was split with levels = ["parent"].
C8_Witness ==
    /\ Returned
    /\ levels = {"parent"}
    /\ Len(documents) = 1
    /\ WordCount(documents[1]) = splitter.grandchild_chunk_size
    /\ documents[1].content # CleanText(WordCount(documents[1]))
    /\ Len(all_chunks) = 1

\* C9: a document with zero words (content empty, None or whitespace only)
\* contributes no chunk and raises no error; every other document of the
\* batch is still split (it has chunks in the result whenever a level was
\* requested or it is a small document, whatever empty documents surround
\* it); an empty document list returns an empty list.
C9_EmptyDocumentsAreSkipped ==
    /\ pc # "AttributeError"
    /\ Returned =>
           /\ \A d \in DocIndexes :
                  LET n == WordCount(documents[d])
                  IN  IF n = 0
                      THEN DocChunks(d) = <<>>
                      ELSE (EffectiveLevels # {} \/ n <= splitter.grandchild_chunk_size)
                               => DocChunks(d) # <<>>
           /\ documents = <<>> => all_chunks = <<>>

\* C9's case: a batch whose first document has content None and whose second
\* document has words has returned chunks.
C9_Witness ==
    /\ Returned
    /\ Len(documents) = 2
    /\ documents[1].content = NoneContent
    /\ WordCount(documents[2]) > 0
    /\ all_chunks # <<>>

\* C1: every returned chunk has parent_id None only if its own level is the
\* coarsest level generated for its document; otherwise its parent_id is not
\* None and, unless it is '<doc_id>_virtual_parent', it is the chunk_id of a
\* coarser-level chunk of the same returned list.
C1_ParentLinkage ==
    Returned =>
        \A i \in 1..Len(all_chunks) :
            LET c == all_chunks[i]
                ranks == {Rank(all_chunks[j].meta["chunk_level"]) :
                             j \in {k \in 1..Len(all_chunks) :
                                       all_chunks[k].meta["doc_id"] = c.meta["doc_id"]}}
                coarsest == CHOOSE r \in ranks : \A q \in ranks : r <= q
                rank == Rank(c.meta["chunk_level"])
            IN  /\ c.meta["parent_id"] = None => rank = coarsest
                /\ rank # coarsest =>
                       /\ c.meta["parent_id"] # None
                       /\ \/ c.meta["parent_id"] = c.meta["doc_id"] \o "_virtual_parent"
                          \/ \E j \in 1..Len(all_chunks) :
                                 /\ all_chunks[j].meta["chunk_id"] = c.meta["parent_id"]
                                 /\ Rank(all_chunks[j].meta["chunk_level"]) < rank

\* C6: whenever a document has n > 0 words, the [chunk_start, chunk_end)
\* intervals of the chunks generated at one level cover every word index
\* 0..n-1.
C6_LevelCoversDocument ==
    Returned =>
        \A d \in DocIndexes : \A level \in LevelNames :
            LET chunks == LevelChunks(d, level)
            IN  chunks # <<>> =>
                    \A w \in 0..(WordCount(documents[d]) - 1) :
                        \E k \in 1..Len(chunks) :
                            /\ chunks[k].meta["chunk_start"] <= w
                            /\ w < chunks[k].meta["chunk_end"]

\* C4: for a document of more than grandchild_chunk_size words, child chunks
\* are linked to parent chunks when the parent level was requested and
\* otherwise all carry '<doc_id>_virtual_parent'; grandchild chunks are linked
\* to child chunks when the child level was requested, else to parent chunks
\* when the parent level was requested, else all carry the virtual parent id;
\* parent chunks always have parent_id None.
C4_LinkedToNearestCoarserLevel ==
    Returned =>
        \A d \in DocIndexes :
            WordCount(documents[d]) > splitter.grandchild_chunk_size =>
                \A i \in 1..Len(DocChunks(d)) :
                    LET c == DocChunks(d)[i]
                        target == LinkLevel(c.meta["chunk_level"])
                    IN  IF c.meta["chunk_level"] = "parent"
                        THEN c.meta["parent_id"] = None
                        ELSE IF target = "none"
                        THEN c.meta["parent_id"] = DocId(d) \o "_virtual_parent"
                        ELSE c.meta["parent_id"] \in ChunkIds(LevelChunks(d, target))

WindowedLevels(d) ==
    IF WordCount(documents[d]) <= splitter.grandchild_chunk_size THEN {}
    ELSE {level \in EffectiveLevels \cap LevelNames :
             /\ LevelSize(level) > splitter.chunk_overlap
             /\ splitter.chunk_overlap >= 0}

\* The rest of C5: exactly one chunk of the level ends at n, and no two chunks
\* of the level have the same (chunk_start, chunk_end).
OneLastChunkDistinctIntervals(chunks, n) ==
    /\ Cardinality({k \in 1..Len(chunks) : chunks[k].meta["chunk_end"] = n}) = 1
    /\ chunks[Len(chunks)].meta["chunk_end"] = n
    /\ \A a, b \in 1..Len(chunks) : Interval(chunks[a]) = Interval(chunks[b]) => a = b

\* C5 (as stated): for a document of n words and a level of size s and
\* overlap o with s > o >= 0, the level has ceil(max(n-o,0)/(s-o)) chunks,
\* exactly one of them (the last) has chunk_end = n, and no two have the same
\* (chunk_start, chunk_end).
C5_ChunkCountFormula ==
    Returned =>
        \A d \in DocIndexes : \A level \in WindowedLevels(d) :
            LET chunks == LevelChunks(d, level)
                n == WordCount(documents[d])
                s == LevelSize(level)
                o == splitter.chunk_overlap
            IN  /\ Len(chunks) = CeilDiv(Max(n - o, 0), s - o)
                /\ OneLastChunkDistinctIntervals(chunks, n)

\* C5 (amended): for a document of n >= 1 words and a level of size s and
\* overlap o with s > o >= 0, the level has ceil((n-o)/(s-o)) chunks when
\* n > o and one chunk when n <= o; exactly one of them (the last) has
\* chunk_end = n, and no two have the same (chunk_start, chunk_end).
C5_ChunkCountAtLeastOne ==
    Returned =>
        \A d \in DocIndexes : \A level \in WindowedLevels(d) :
            LET chunks == LevelChunks(d, level)
                n == WordCount(documents[d])
                s == LevelSize(level)
                o == splitter.chunk_overlap
            IN  /\ Len(chunks) = IF n > o THEN CeilDiv(n - o, s - o) ELSE 1
                /\ OneLastChunkDistinctIntervals(chunks, n)

\* C5's case: a level whose size exceeds the overlap was generated for a
\* document of no more words than the overlap, as one chunk [0, n).
C5_Witness ==
    /\ Returned
    /\ \E d \in DocIndexes : \E level \in WindowedLevels(d) :
           /\ WordCount(documents[d]) <= splitter.chunk_overlap
           /\ Len(LevelChunks(d, level)) = 1
           /\ Interval(LevelChunks(d, level)[1]) = <<0, WordCount(documents[d])>>

\* The scenario of C3: the default splitter returned from one 3000-word
\* document split with levels = None.
Scenario3000 ==
    /\ Returned
    /\ splitter = [constructed |-> TRUE,
                   parent_chunk_size |-> DefaultParentChunkSize,
                   child_chunk_size |-> DefaultChildChunkSize,
                   grandchild_chunk_size |-> DefaultGrandchildChunkSize,
                   chunk_overlap |-> DefaultChunkOverlap]
    /\ levels = NoneLevels
    /\ Len(documents) = 1
    /\ WordCount(documents[1]) = 3000

\* The parent level of the scenario is exactly [0,2000), [1950,3000).
TwoParents3000 ==
    LET parents == LevelChunks(1, "parent")
    IN  /\ Len(parents) = 2
        /\ Interval(parents[1]) = <<0, 2000>>
        /\ Interval(parents[2]) = <<1950, 3000>>

\* Every chunk of the level has the chunk_id of the first chunk of the
\* coarser level with maximal overlap as its parent_id.
LinkedByMaxOverlap(level, coarser_level) ==
    LET chunks == LevelChunks(1, level)
        coarser == LevelChunks(1, coarser_level)
    IN  \A k \in 1..Len(chunks) :
            chunks[k].meta["parent_id"] =
                coarser[FirstMaxOverlap(chunks[k], coarser)].meta["chunk_id"]

\* C3 (as stated): in the 3000-word scenario the parent level is exactly
\* [0,2000), [1950,3000), and every child chunk and every grandchild chunk has
\* the chunk_id of the parent chunk with maximal overlap as its parent_id.
C3_GrandchildrenReferenceParents ==
    Scenario3000 =>
        /\ TwoParents3000
        /\ LinkedByMaxOverlap("child", "parent")
        /\ LinkedByMaxOverlap("grandchild", "parent")

\* C3 (amended): in the 3000-word scenario the parent level is exactly
\* [0,2000), [1950,3000); every child chunk has the chunk_id of the parent
\* chunk with maximal overlap as its parent_id, and every grandchild chunk
\* has the chunk_id of the child chunk with maximal overlap as its parent_id
\* (never a parent chunk's).
C3_GrandchildrenReferenceChildren ==
    Scenario3000 =>
        /\ TwoParents3000
        /\ LinkedByMaxOverlap("child", "parent")
        /\ LinkedByMaxOverlap("grandchild", "child")
        /\ LET grandchildren == LevelChunks(1, "grandchild")
           IN  \A k \in 1..Len(grandchildren) :
                   grandchildren[k].meta["parent_id"]
                       \notin ChunkIds(LevelChunks(1, "parent"))

\* C3's case: the scenario was split into 2 parent, 7 child and 30 grandchild
\* chunks, and the child chunk [1800,2300), which overlaps both parents, is
\* linked to the second.
C3_Witness ==
    /\ Scenario3000
    /\ Len(LevelChunks(1, "parent")) = 2
    /\ Len(LevelChunks(1, "child")) = 7
    /\ Len(LevelChunks(1, "grandchild")) = 30
    /\ \E k \in 1..Len(LevelChunks(1, "child")) :
           LET child == LevelChunks(1, "child")[k]
           IN  /\ Interval(child) = <<1800, 2300>>
               /\ child.meta["parent_id"] = LevelChunks(1, "parent")[2].meta["chunk_id"]

\* '<file_name or doc_<hash>>' of document d.
DocBase(d) ==
    IF "file_name" \in DOMAIN documents[d].meta
    THEN documents[d].meta["file_name"]
    ELSE "doc_" \o md5_hex8(documents[d].content)

\* Documents a and b of the batch would be told apart by nothing but their
\* batch index: the same file_name, or no file_name and the same content.
SameBase(a, b) == a # b /\ DocBase(a) = DocBase(b)

\* C11: in the list one split_documents call returns no two chunks have the
\* same chunk_id, also when documents share a file_name or, without
\* file_name, their content; and every chunk_id is
\* '<doc_id>_<chunk_level>_<chunk_index>' with doc_id
\* '<file_name or doc_<hash>>_<batch index>' of a document of the batch.
C11_ChunkIdsUnique ==
    Returned =>
        /\ Cardinality(ChunkIds(all_chunks)) = Len(all_chunks)
        /\ \A k \in 1..Len(all_chunks) :
               LET meta == all_chunks[k].meta
               IN  /\ meta["chunk_id"] =
                          meta["doc_id"] \o "_" \o meta["chunk_level"]
                              \o "_" \o ToString(meta["chunk_index"])
                   /\ \E d \in DocIndexes :
                          meta["doc_id"] = DocBase(d) \o "_" \o ToString(d - 1)

\* C11's case: two documents that differ in nothing but their batch index
\* were both split, into chunks of the same level and chunk_index.
C11_Witness ==
    /\ Returned
    /\ \E a, b \in DocIndexes :
           /\ SameBase(a, b)
           /\ \E i \in 1..Len(DocChunks(a)), j \in 1..Len(DocChunks(b)) :
                  /\ DocChunks(a)[i].meta["chunk_level"] = DocChunks(b)[j].meta["chunk_level"]
                  /\ DocChunks(a)[i].meta["chunk_index"] = DocChunks(b)[j].meta["chunk_index"]
    /\ \E a, b \in DocIndexes :
           SameBase(a, b) /\ "file_name" \notin DOMAIN documents[a].meta
                          /\ DocChunks(a) # <<>> /\ DocChunks(b) # <<>>

\* The place in the batch (1-based) of the document a chunk was cut from.
DocOf(chunk) ==
    LET id == chunk.meta["doc_id"]
    IN  CHOOSE d \in DocIndexes : DocId(d) = id

\* C12: the returned list is ordered: the chunks of an earlier document come
\* before those of a later one; within one document parent chunks come
\* before child chunks, which come before grandchild chunks; within one level
\* chunks come in increasing chunk_index and increasing chunk_start.  Stated
\* for each chunk and the next one, which gives it for every two chunks.
C12_OutputOrder ==
    Returned =>
        LET doc == [k \in 1..Len(all_chunks) |-> DocOf(all_chunks[k])]
        IN  \A a \in 1..(Len(all_chunks) - 1) :
                LET b == a + 1 IN
                    LET x == all_chunks[a].meta
                        y == all_chunks[b].meta
                    IN  /\ doc[a] <= doc[b]
                        /\ doc[a] = doc[b] =>
                               Rank(x["chunk_level"]) <= Rank(y["chunk_level"])
                        /\ (doc[a] = doc[b] /\ x["chunk_level"] = y["chunk_level"]) =>
                               /\ x["chunk_index"] < y["chunk_index"]
                               /\ x["chunk_start"] < y["chunk_start"]

\* C12's case: two documents were split, the first into all three levels
\* with two chunks in one of them.
C12_Witness ==
    /\ Returned
    /\ Len(documents) >= 2
    /\ DocChunks(2) # <<>>
    /\ \A level \in LevelNames : LevelChunks(1, level) # <<>>
    /\ \E level \in LevelNames : Len(LevelChunks(1, level)) >= 2

\* The keys _create_chunks and _create_single_chunk write into a chunk's meta.
ChunkFields ==
    {"chunk_id", "chunk_level", "chunk_index", "chunk_start", "chunk_end",
     "total_chunks", "parent_id", "doc_id"}

\* C13 (as stated): every key of the source document's meta is in the
\* chunk's meta with the same value, next to the eight chunk fields.
C13_MetaSupersetSameValues ==
    Returned =>
        \A k \in 1..Len(all_chunks) :
            LET meta == all_chunks[k].meta
                source == documents[DocOf(all_chunks[k])].meta
            IN  /\ ChunkFields \subseteq DOMAIN meta
                /\ \A key \in DOMAIN source :
                       key \in DOMAIN meta /\ meta[key] = source[key]

\* C13 (amended): every key of the source document's meta is in the chunk's
\* meta, with the same value unless it is one of the eight chunk fields;
\* the chunk fields are all present and hold what the splitter wrote, also
\* where the source document's meta had a value under the same key (here:
\* chunk_level is the level of the chunk and doc_id the document's doc_id).
C13_MetaSupersetChunkFieldsWin ==
    Returned =>
        \A k \in 1..Len(all_chunks) :
            LET meta == all_chunks[k].meta
                d == DocOf(all_chunks[k])
                source == documents[d].meta
            IN  /\ DOMAIN meta = DOMAIN source \cup ChunkFields
                /\ \A key \in DOMAIN source \ ChunkFields : meta[key] = source[key]
                /\ meta["chunk_level"] \in LevelNames
                /\ meta["doc_id"] = DocId(d)
                /\ meta["chunk_end"] <= WordCount(documents[d])

\* C13's case: a chunk of a document whose meta has a key that is no chunk
\* field, kept, and a key that is one, with another value in the chunk.
C13_Witness ==
    /\ Returned
    /\ \E k \in 1..Len(all_chunks) :
           LET meta == all_chunks[k].meta
               source == documents[DocOf(all_chunks[k])].meta
           IN  /\ "file_name" \in DOMAIN source
               /\ meta["file_name"] = source["file_name"]
               /\ "chunk_level" \in DOMAIN source
               /\ meta["chunk_level"] # source["chunk_level"]

\* split_documents was called with levels = ['child'].
ChildOnly == Returned /\ levels = {"child"}

\* C14 (as stated): with levels = ['child'] every returned chunk has
\* chunk_level 'child' and a parent_id that is not None, whatever non-empty
\* documents were given.
C14_ChildOnlyAllChunksChild ==
    ChildOnly =>
        \A k \in 1..Len(all_chunks) :
            /\ all_chunks[k].meta["chunk_level"] = "child"
            /\ all_chunks[k].meta["parent_id"] # None

\* C14 (amended): with levels = ['child'] every chunk of a document of more
\* than grandchild_chunk_size words has chunk_level 'child' and the
\* document's virtual parent as parent_id; a document of 1 to
\* grandchild_chunk_size words gives one chunk of chunk_level 'grandchild'
\* with parent_id None.
C14_ChildOnlyUnlessSmall ==
    ChildOnly =>
        \A d \in DocIndexes :
            LET chunks == DocChunks(d)
                n == WordCount(documents[d])
            IN  IF n > splitter.grandchild_chunk_size
                THEN /\ chunks # <<>>
                     /\ \A k \in 1..Len(chunks) :
                            /\ chunks[k].meta["chunk_level"] = "child"
                            /\ chunks[k].meta["parent_id"] = virtual_parent_id(DocId(d))
                ELSE n >= 1 =>
                     /\ Len(chunks) = 1
                     /\ chunks[1].meta["chunk_level"] = "grandchild"
                     /\ chunks[1].meta["parent_id"] = None

\* C14's case: levels = ['child'] with a document that was cut into two
\* child chunks and a document small enough for the single-chunk path.
C14_Witness ==
    /\ ChildOnly
    /\ \E d \in DocIndexes :
           /\ WordCount(documents[d]) > splitter.grandchild_chunk_size
           /\ Len(DocChunks(d)) >= 2
    /\ \E d \in DocIndexes :
           /\ WordCount(documents[d]) >= 1
           /\ WordCount(documents[d]) <= splitter.grandchild_chunk_size

\* The directories between the traversal root and the local file at hand.
DirsBelowRoot == CHOOSE dirs \in LocalDirs : file_path = LocalFile(dirs)

\* C15: for a file below the traversal root _extract_hierarchical_metadata
\* returns category = the first directory below the root, or 'root' for a
\* file directly under the root; subcategory = the second directory, or None;
\* hierarchy_path = the directories below the root joined by '/', or 'root'
\* if there are none; hierarchy_level = the number of these directories.
C15_LocalHierarchyFields ==
    lpc = "extracted" =>
        LET dirs == DirsBelowRoot
        IN  /\ metadata.category = IF dirs = <<>> THEN RootName ELSE dirs[1]
            /\ metadata.subcategory = IF Len(dirs) >= 2 THEN dirs[2] ELSE NoneString
            /\ IF dirs = <<>>
               THEN metadata.hierarchy_path = RootName
               ELSE /\ str_split_on(metadata.hierarchy_path, Slash) = dirs
                    /\ Len(metadata.hierarchy_path) = 2 * Len(dirs) - 1
            /\ metadata.hierarchy_level = Len(dirs)

\* C15's case: the metadata of a file three directories below the root, and
\* nothing of the root's own path in it.
C15_Witness ==
    /\ lpc = "extracted"
    /\ Len(DirsBelowRoot) = 3
    /\ metadata.category = <<"a">>
    /\ metadata.subcategory = <<"b">>
    /\ metadata.hierarchy_path = <<"a", Slash, "b", Slash, "a">>
    /\ metadata.hierarchy_level = 3

\* The folders of the list, by id.
ListedIds == {folders[i].id : i \in 1..Len(folders)}

\* Following parents[0] from folder id leads to the root within `fuel` steps.
RECURSIVE ReachesRoot(_, _)
ReachesRoot(id, fuel) ==
    \/ id = RootId
    \/ /\ fuel > 0
       /\ id \in DOMAIN folder_map
       /\ folder_map[id].parents # <<>>
       /\ ReachesRoot(folder_map[id].parents[1], fuel - 1)

\* The folders of the list whose chain of first parents ends in the root.
UnderRoot == {id \in ListedIds : ReachesRoot(id, Len(folders))}

\* The names on the chain of first parents of a folder under the root, from
\* the folder just below the root down to the folder itself.
RECURSIVE AncestorNames(_)
AncestorNames(id) ==
    IF id = RootId THEN <<>>
    ELSE AncestorNames(folder_map[id].parents[1]) \o <<folder_map[id].name>>

\* C16: _build_folder_hierarchy_from_drive gives every folder under the root
\* a path equal to the '/'-joined names of its ancestors below the root and
\* its own name, and a file in the folder gets the first of these names as
\* category and the second as subcategory.
C16_PathIsJoinedAncestorNames ==
    lpc = "built" =>
        \A id \in UnderRoot :
            /\ folder_map[id].path = str_join_with(Slash, AncestorNames(id))
            /\ _get_google_drive_hierarchy(<<id>>, folder_map).category
                   = AncestorNames(id)[1]
            /\ Len(AncestorNames(id)) >= 2 =>
                   _get_google_drive_hierarchy(<<id>>, folder_map).subcategory
                       = AncestorNames(id)[2]

\* The four hierarchy fields of a metadata dict.
HierarchyFields(meta) ==
    <<meta.category, meta.subcategory, meta.hierarchy_path, meta.hierarchy_level>>

\* What load_from_google_drive gives the files of folder id (lines 142-144),
\* and what _extract_hierarchical_metadata gives a file in the local
\* directory with the same chain of names below the traversal root.
CloudHierarchy(id) == _get_google_drive_hierarchy(<<id>>, folder_map)
LocalHierarchy(id) ==
    _extract_hierarchical_metadata(LocalFile(AncestorNames(id)), RootPath)

\* C17: for the same folder tree a file in cloud folder F gets the same
\* category, subcategory, hierarchy_path and hierarchy_level as a file in the
\* corresponding local directory; a file directly in the root folder gets
\* category 'root', subcategory None, hierarchy_path 'root' and
\* hierarchy_level 0.
C17_CloudEqualsLocal ==
    lpc = "built" =>
        /\ \A id \in UnderRoot \cup {RootId} :
               HierarchyFields(CloudHierarchy(id)) = HierarchyFields(LocalHierarchy(id))
        /\ HierarchyFields(CloudHierarchy(RootId)) = <<RootName, NoneString, RootName, 0>>

\* The `parents` of the record of the list with this id.
ListedParents(id) ==
    folders[CHOOSE i \in 1..Len(folders) : folders[i].id = id].parents

\* Following parents[0] through the folder list from `parents` on, the chain
\* is broken (no parents, or an id that is neither the root's nor in the
\* list) or reaches the root within `fuel` folders.
RECURSIVE ChainEndsFrom(_, _)
ChainEndsFrom(parents, fuel) ==
    \/ parents = <<>>
    \/ parents # <<>> /\ parents[1] = RootId
    \/ parents # <<>> /\ parents[1] \notin ListedIds
    \/ /\ fuel > 0
       /\ parents # <<>>
       /\ parents[1] \in ListedIds
       /\ ChainEndsFrom(ListedParents(parents[1]), fuel - 1)

\* The parent chain of the walk at hand is broken or reaches the root.
ChainEnds == ChainEndsFrom(current_parents, Len(folders))

\* A path that has been computed ends with the folder's own name.
EndsWithOwnName(id) ==
    LET path == folder_map[id].path
        name == folder_map[id].name
    IN  path # NoneString =>
            /\ Len(path) >= Len(name)
            /\ SubSeq(path, Len(path) - Len(name) + 1, Len(path)) = name
            /\ Len(path) > Len(name) => path[Len(path) - Len(name)] = Slash

\* C18: the path computation of a folder whose parent chain is broken or
\* reaches the root terminates: the walk stops at the first parent id that
\* is not in the folder map, or at the root, whose entry has no parents, and
\* the path it sets ends with the folder's own name.
C18_WalkTerminates ==
    /\ (lpc = "walk" /\ ChainEnds)
           ~> (lpc = "loop" /\ folder_id \in ListedIds
                            /\ folder_map[folder_id].path # NoneString)
    /\ [](\A id \in DOMAIN folder_map : EndsWithOwnName(id))

\* C18's case: the walk of a folder has ended at a parent id that is not in
\* the folder map, after one parent that is, with the partial path
\* '<parent's name>/<own name>'.
C18_Witness ==
    /\ lpc = "built"
    /\ Len(folders) = 2
    /\ folders[1].parents = <<FolderId(2)>>
    /\ folders[2].parents = <<UnknownId>>
    /\ folder_map[FolderId(1)].path = folders[2].name \o <<Slash>> \o folders[1].name
    /\ folder_map[FolderId(2)].path = folders[2].name

\* The first-parent pointers from folder id on never leave the list: they
\* run into a cycle of folders of the list.
LeadsIntoCycle(id) == ~ChainEndsFrom(ListedParents(id), Len(folders))

\* C19: the parent-chain walk has no guard against cycles: while the path
\* of a folder on or leading into a cycle of first-parent pointers is
\* computed the loop condition holds and the break is not taken, so the
\* walk is never left, the folder never gets a path and
\* _build_folder_hierarchy_from_drive never returns.
C19_WalkOnCycleNeverEnds ==
    /\ (lpc = "walk" /\ LeadsIntoCycle(folder_id)) =>
           walk_goes_on(current_parents, folder_map)
    /\ \A id \in ListedIds :
           LeadsIntoCycle(id) =>
               /\ folder_map[id].path = NoneString
               /\ lpc \notin {"built", "looked_up"}

\* C19's case: the walk of a folder leading into a cycle has gone through
\* more parents than there are folders, and goes on.
C19_Witness ==
    /\ lpc = "walk"
    /\ LeadsIntoCycle(folder_id)
    /\ Len(path_parts) > Len(folders) + 1
    /\ Len(folders) = 2
    /\ walk_goes_on(current_parents, folder_map)

\* The dicts of the two early returns of _get_google_drive_hierarchy.
RootHierarchy ==
    [category |-> RootName, subcategory |-> NoneString,
     hierarchy_path |-> RootName, hierarchy_level |-> 0]
UnknownHierarchy ==
    [category |-> UnknownName, subcategory |-> NoneString,
     hierarchy_path |-> UnknownName, hierarchy_level |-> 0]

\* The lookup's first parent id is not a key of the folder map.
ParentUnresolved == parent_ids # <<>> /\ parent_ids[1] \notin DOMAIN folder_map

Called == dpc # "idle"
RootEntry == load_call.root_path

\* A directory of the tree at root_path may not be listed.
RECURSIVE SomeDirectoryDenied(_)
SomeDirectoryDenied(entry) ==
    /\ entry.kind = "dir"
    /\ \/ entry.denied
       \/ \E i \in DOMAIN entry.items : SomeDirectoryDenied(entry.items[i])

\* The files of the tree at root_path, in the order of the traversal, with
\* their names.
RECURSIVE FilesBelow(_)
RECURSIVE FilesOfItems(_, _)
FilesOfItems(items, i) ==
    IF i > Len(items) THEN <<>>
    ELSE FilesBelow(items[i]) \o FilesOfItems(items, i + 1)
FilesBelow(entry) ==
    IF entry.kind = "file" THEN <<entry>>
    ELSE IF entry.denied THEN <<>>
    ELSE FilesOfItems(entry.items, 1)

\* C21: a root path that does not exist or is not a directory makes
\* load_from_directory raise ValueError, and a directory of the tree that
\* may not be listed makes it raise PermissionError, whatever else the tree
\* holds; in both cases no list of documents is returned.
C21_TraversalFailuresPropagate ==
    Called =>
        /\ RootEntry.kind # "dir" => dpc = "ValueError" /\ load_result = <<>>
        /\ SomeDirectoryDenied(RootEntry) =>
               dpc = "PermissionError" /\ load_result = <<>>

\* A loadable file directly in the root, listed before a directory that may
\* not be listed: the call raised PermissionError.
C21_Witness ==
    /\ dpc = "PermissionError"
    /\ load_result = <<>>
    /\ Len(RootEntry.items) = 2
    /\ RootEntry.items[1].kind = "file"
    /\ RootEntry.items[1].file = "plain"
    /\ RootEntry.items[2].kind = "dir"
    /\ RootEntry.items[2].denied

\* A file load_from_directory returns a document for when called with
\* these arguments: its suffix is allowed, it is not above the maximum, it
\* has content, and reading it and stat() succeed.
Loadable(entry) ==
    /\ str_lower(file_suffix(entry.file)) \in extensions_of(load_call.allowed_extensions)
    /\ ~exceeds_max_size(entry.file, max_size_bytes_of(load_call.max_file_size_mb))
    /\ entry.file \notin {"empty", "unreadable", "stat_fails"}

LoadableFileNames ==
    LET loadable == SelectSeq(FilesBelow(RootEntry), Loadable)
    IN  [i \in DOMAIN loadable |-> loadable[i].name]

\* C22: on a tree whose directories can all be listed, load_from_directory
\* does not raise, whatever goes wrong with single files, and returns the
\* documents of the loadable files, in the order of the traversal.
C22_PerFileErrorsAreSkipped ==
    (Called /\ RootEntry.kind = "dir" /\ ~SomeDirectoryDenied(RootEntry)) =>
        /\ dpc = "returned"
        /\ [i \in DOMAIN load_result |-> load_result[i].meta.file_name] = LoadableFileNames

\* ------------------------------------------------ GitHubRepositoryLoader
\* The list of a loader that processes markdown files only.
MarkdownOnlyExtensions == <<".md">>

\* C23: the loader's allowed_extensions is the list ['.md'], and the
\* extensions load_repository hands to the hierarchical loader hold none of
\* .py, .js and .txt.
C23_MarkdownOnly ==
    /\ github.constructed => github.allowed_extensions = MarkdownOnlyExtensions
    /\ load_repository_call # <<>> =>
           extensions_of(load_repository_call.allowed_extensions)
               \cap {".py", ".js", ".txt"} = {}

\* ------------------------------------------------- the chunks of a level
\* C24: the chunks of one level of one document carry the chunk_index
\* values 0, 1, ..., k-1 in output order and all carry total_chunks = k,
\* k being their number; no returned chunk has total_chunks = -1.
C24_IndexesAndTotals ==
    Returned =>
        /\ \A d \in DocIndexes : \A level \in LevelNames :
               LET chunks == LevelChunks(d, level)
               IN  \A i \in 1..Len(chunks) :
                       /\ chunks[i].meta["chunk_index"] = i - 1
                       /\ chunks[i].meta["total_chunks"] = Len(chunks)
        /\ \A k \in 1..Len(all_chunks) : all_chunks[k].meta["total_chunks"] # -1

\* A level of three chunks or more was returned, and so was the single
\* chunk of a small document.
C24_Witness ==
    /\ Returned
    /\ \E d \in DocIndexes : \E level \in LevelNames : Len(LevelChunks(d, level)) >= 3
    /\ \E d \in DocIndexes :
           /\ WordCount(documents[d]) >= 1
           /\ WordCount(documents[d]) <= splitter.grandchild_chunk_size
           /\ Len(DocChunks(d)) = 1

\* --------------------------------------- the while loop of _create_chunks
\* C25: for every word count and every integer chunk_size and overlap the
\* step is max(1, chunk_size - overlap), every pass through the loop moves
\* start up, the loop is left as soon as a window ends at total_words or
\* start has reached total_words, and every call comes to its end.
C25_WindowLoopTerminates ==
    /\ [](wpc # "idle" => /\ window.step = Max(1, window.chunk_size - window.overlap)
                          /\ window.step >= 1)
    /\ [][wpc = "loop" /\ window' # window => window'.start > window.start]_vars
    /\ [][wpc = "loop" /\ wpc' = "loop" =>
              window'.windows[Len(window'.windows)][2] < window.total_words]_vars
    /\ [](wpc = "done" =>
              \/ window.start >= window.total_words
              \/ window.windows[Len(window.windows)][2] >= window.total_words)
    /\ (wpc = "loop") ~> (wpc = "done")

\* A call with overlap >= chunk_size has come to its end after three
\* windows or more.
C25_Witness ==
    /\ wpc = "done"
    /\ window.overlap >= window.chunk_size
    /\ Len(window.windows) >= 3

\* C26: for a level with 0 <= overlap < chunk_size that _create_chunks
\* generated, every chunk holds between 1 and chunk_size words, every chunk
\* but the last holds chunk_size words, a chunk ends overlap words after the
\* next one starts, and the content of a chunk is the space-joined slice
\* words[chunk_start:chunk_end] of the document's words.
C26_WindowShape ==
    Returned =>
        \A d \in DocIndexes : \A level \in WindowedLevels(d) :
            LET chunks == LevelChunks(d, level)
                words == str_split(documents[d].content)
                size == LevelSize(level)
            IN  \A i \in 1..Len(chunks) :
                    LET chunk_start == chunks[i].meta["chunk_start"]
                        chunk_end == chunks[i].meta["chunk_end"]
                    IN  /\ 1 <= chunk_end - chunk_start
                        /\ chunk_end - chunk_start <= size
                        /\ i < Len(chunks) => chunk_end - chunk_start = size
                        /\ i < Len(chunks) =>
                               chunk_end - chunks[i + 1].meta["chunk_start"]
                                   = splitter.chunk_overlap
                        /\ chunks[i].content =
                               str_join(SubSeq(words, chunk_start + 1, chunk_end))

\* A level with a positive overlap was generated as two chunks or more,
\* the last of them shorter than chunk_size, from a text with other
\* whitespace than single spaces.
C26_Witness ==
    /\ Returned
    /\ splitter.chunk_overlap >= 1
    /\ \E d \in DocIndexes : \E level \in WindowedLevels(d) :
           LET chunks == LevelChunks(d, level)
           IN  /\ Len(chunks) >= 2
               /\ chunks[Len(chunks)].meta["chunk_end"]
                      - chunks[Len(chunks)].meta["chunk_start"] < LevelSize(level)
               /\ documents[d].content # str_join(str_split(documents[d].content))

\* C27: the chunks of the document at one batch index are the same whatever
\* the other documents of the batch are and however many follow it (they are
\* those of the batch in which it is the last document and all documents
\* before it are skipped), and a parent_id that is neither None nor the
\* virtual parent id is the chunk_id of a returned chunk of the same
\* document.
C27_DocumentsIndependent ==
    Returned =>
        \A d \in DocIndexes :
            LET id == DocId(d)
                mine == SelectSeq(all_chunks, LAMBDA c : c.meta["doc_id"] = id)
                alone == BatchAround(documents[d], d, SkippedDocument, d)
            IN  /\ SelectSeq(split_documents(alone, levels),
                             LAMBDA c : c.meta["doc_id"] = id) = mine
                /\ \A i \in 1..Len(mine) :
                       mine[i].meta["parent_id"] \notin {None, virtual_parent_id(id)}
                           => mine[i].meta["parent_id"] \in ChunkIds(mine)

\* Two documents of different files were split into several chunks each, one
\* of them with a chunk that has a parent chunk.
C27_Witness ==
    /\ Returned
    /\ Len(documents) = 2
    /\ \A d \in DocIndexes : Len(DocChunks(d)) >= 2
    /\ documents[1].meta # documents[2].meta
    /\ \E k \in 1..Len(all_chunks) :
           /\ all_chunks[k].meta["parent_id"] # None
           /\ all_chunks[k].meta["parent_id"] \in ChunkIds(all_chunks)

\* ----------------------------------------------------------- ChatInterface
IsCommand(user_input, name) == text_lower(user_input) = Command(name)
IsQuestion(user_input) == user_input # <<>> /\ user_input[1] # Slash

\* One entry per question answered since the last /clear among the first n
\* calls, in the order of the calls.
RECURSIVE AnsweredSinceClear(_)
AnsweredSinceClear(n) ==
    IF n = 0 THEN <<>>
    ELSE LET call == chat_log[n]
         IN  IF IsCommand(call.user_input, "clear") THEN <<>>
             ELSE IF IsQuestion(call.user_input) /\ call.outcome = "answered"
             THEN Append(AnsweredSinceClear(n - 1), call.user_input)
             ELSE AnsweredSinceClear(n - 1)

\* C28: the history holds one entry per question answered since the last
\* /clear, in order; an empty input and a command never reach the query
\* pipeline; process_query returns False for /quit and /exit and for
\* nothing else.
C28_HistoryOfAnsweredQueries ==
    /\ [i \in DOMAIN history |-> history[i].query] = AnsweredSinceClear(Len(chat_log))
    /\ \A n \in DOMAIN chat_log :
           LET call == chat_log[n]
           IN  /\ ~IsQuestion(call.user_input) => call.outcome = "not_called"
               /\ call.returned = FALSE <=>
                      \/ IsCommand(call.user_input, "quit")
                      \/ IsCommand(call.user_input, "exit")

\* A question was answered, /clear was given and another question was
\* answered: the history holds the last one only.
C28_Witness ==
    /\ Len(chat_log) = 3
    /\ chat_log[1].outcome = "answered"
    /\ IsCommand(chat_log[2].user_input, "clear")
    /\ chat_log[3].outcome = "answered"
    /\ Len(history) = 1

\* -------------------------------------------------------- IndexingPipeline
\* Among the operations before the n-th, a store was set up and after it a
\* pipeline was created, with no cleanup from the setup on.
SetUpAndCreatedBefore(n) ==
    \E i, j \in 1..(n - 1) :
        /\ i < j
        /\ indexing_log[i].operation = "setup_document_store"
        /\ indexing_log[i].outcome = "returned"
        /\ indexing_log[j].operation = "create_indexing_pipeline"
        /\ indexing_log[j].outcome = "returned"
        /\ \A k \in i..(n - 1) : indexing_log[k].operation # "cleanup"

PlacesOf(operation) == {n \in DOMAIN operations : operations[n] = operation}
Did(operation) == PlacesOf(operation) # {}

\* A valid local git repository was at repo_path when process_repository
\* was called, and force_clone is false.
LocalAndNotForced ==
    /\ process_call.repo.exists
    /\ process_call.repo.git
    /\ ~process_call.force_clone

\* process_repository is past parse_repo_name.
InProcessRepository == gpc \notin {"new", "idle", "ValueError"}

\* C30: with a valid local git repository and force_clone false,
\* process_repository never clones or deletes, updates only when
\* update_existing, loads whether or not the update failed and reports
\* "Found local"; otherwise it returns only after a clone, deleting an
\* existing directory before it exactly when force_clone is set; documents
\* are loaded only after a found-local or right after a successful clone;
\* after a failed clone nothing is loaded and the result is an empty list
\* with the status "Failed to clone".
C30_ProcessRepositoryProtocol ==
    InProcessRepository =>
        /\ LocalAndNotForced =>
               /\ ~Did("clone") /\ ~Did("clone_failed")
               /\ ~Did("rmtree") /\ ~Did("rmtree_failed")
               /\ (Did("update") \/ Did("update_failed")) => process_call.update_existing
               /\ gpc \in {"to_load", "returned"} =>
                      /\ repository_result.status = "Found local"
                      /\ process_call.update_existing
                             => (Did("update") \/ Did("update_failed"))
               /\ gpc = "returned" => Did("load")
        /\ ~LocalAndNotForced =>
               /\ ~Did("update") /\ ~Did("update_failed")
               /\ gpc = "returned" => (Did("clone") \/ Did("clone_failed"))
               /\ (Did("clone") \/ Did("clone_failed")) =>
                      (Did("rmtree")
                           <=> (process_call.force_clone /\ process_call.repo.exists))
               /\ \A r \in PlacesOf("rmtree") :
                      \A c \in PlacesOf("clone") \union PlacesOf("clone_failed") : r < c
               /\ (gpc = "returned" /\ Did("clone")) =>
                      repository_result.status = "Cloned"
        /\ \A n \in PlacesOf("load") :
               \/ LocalAndNotForced
               \/ n > 1 /\ operations[n - 1] = "clone"
        /\ Did("clone_failed") =>
               /\ ~Did("load")
               /\ gpc = "returned"
               /\ repository_result = [documents |-> <<>>, status |-> "Failed to clone"]

\* process_repository with force_clone deleted the existing directory,
\* cloned, loaded at least one document and returned.
C30_Witness ==
    /\ gpc = "returned"
    /\ operations = <<"rmtree", "clone", "load">>
    /\ repository_result.documents # <<>>

=============================================================================
